---- MODULE Spec2Model ----
(***************************************************************************)
(* A model of the monkey bytecode toolchain: the symbol table of the       *)
(* compiler (compiler/symbol_table.go, kept in src/compiler/compiler.go),  *)
(* the compiler, the REPL driver and the stack virtual machine (vm/vm.go). *)
(***************************************************************************)
EXTENDS Integers, Sequences, FiniteSets, TLC

(***************************************************************************)
(* Bounds of the symbol-table harness.                                     *)
(***************************************************************************)
\* symbol tables alive at once (the global one and the enclosed ones)
MaxTables == 3
\* calls of Define, DefineBuiltin and NewEnclosedSymbolTable in one run
MaxSymOps == 4
\* DefineBuiltin is called with an index in 0 .. MaxBuiltinIndex
MaxBuiltinIndex == 1

\* the identifiers the harness defines and resolves
SymNames == {"a", "b"}

VARIABLES
    \* ---- symbol-table harness ----
    tables,       \* the SymbolTable objects allocated so far; a *SymbolTable is an index
    symRet,       \* what the last symbol-table call was and what it returned
    defineCalls,  \* history: how many times Define was called on each table
    defLog,       \* history: the symbol the last Define/DefineBuiltin of a name on a table returned
    symOps,       \* history: number of mutating calls made so far
    \* ---- compiler, VM and their drivers (runVmTests, repl.Start) ----
    driver,       \* "test": one case of runVmTests; "repl": repl.Start; "none": neither
    pc,           \* "prompt": before an input; "run": inside Run; "done"; "crashed": a panic
    inputNo,      \* the test case or REPL line compiled last (0: none, -1: hand-made bytecode)
    vm,           \* the VM
    arrays,       \* the globals arrays: the one New makes and the one of the REPL
    replConsts,   \* the constants slice the REPL keeps between lines
    compileErr,   \* what the last Compile returned
    runErr,       \* what the last Run returned, or the panic that ended it
    result,       \* what LastPoppedStackElement returned after the last Run
    allocs,       \* objects allocated by the VM so far
    lines,        \* lines the REPL has read
    callLog,      \* history: for each frame pushed by Call and not yet popped, the call
    lastSet,      \* history: the value the last SetGlobal stored at each index
    \* ---- the tests of the instruction encoding (src/code/code_test.go) ----
    codeRet       \* what the last call of Make, ReadOperands or String was given and returned

symVars == <<tables, symRet, defineCalls, defLog, symOps>>
vmVars == <<driver, pc, inputNo, vm, arrays, replConsts, compileErr, runErr, result,
            allocs, lines, callLog, lastSet>>
codeVars == <<codeRet>>
vars == <<symVars, vmVars, codeVars>>

(***************************************************************************)
(* Symbol table (src/compiler/compiler.go, lines 151-227).                 *)
(***************************************************************************)
GlobalScope == "GLOBAL"
LocalScope == "LOCAL"
BuiltinScope == "BUILTIN"

\* the nil *SymbolTable
NilTable == 0

\* Go's zero Symbol, returned by a map lookup that misses
ZeroSymbol == [Name |-> "", Scope |-> "", Index |-> 0]

\* map[string]Symbol: a function whose domain is the set of keys present
EmptyStore == [n \in {} |-> ZeroSymbol]

StorePut(store, name, symbol) ==
    [n \in DOMAIN store \cup {name} |-> IF n = name THEN symbol ELSE store[n]]

NewSymbolTable == [Outer |-> NilTable, store |-> EmptyStore, numDefinitions |-> 0]

NewEnclosedSymbolTable(outer) ==
    [Outer |-> outer, store |-> EmptyStore, numDefinitions |-> 0]

\* a Define that continues the numbering of the outer table
DefineCountsOuter(tbls, st, name) ==
    LET base == IF tbls[st].Outer = NilTable THEN 0
                ELSE tbls[tbls[st].Outer].numDefinitions
        symbol == [Name  |-> name,
                   Index |-> base + tbls[st].numDefinitions,
                   Scope |-> IF tbls[st].Outer = NilTable
                             THEN GlobalScope ELSE LocalScope]
    IN  [tables |-> [tbls EXCEPT ![st].store = StorePut(@, name, symbol),
                                 ![st].numDefinitions = @ + 1],
         symbol |-> symbol]

\* a Define that gives a name already in the table the symbol it has
DefineKeepsSymbol(tbls, st, name) ==
    LET symbol == [Name  |-> name,
                   Index |-> tbls[st].numDefinitions,
                   Scope |-> IF tbls[st].Outer = NilTable
                             THEN GlobalScope ELSE LocalScope]
    IN  IF name \in DOMAIN tbls[st].store
        THEN [tables |-> tbls, symbol |-> tbls[st].store[name]]
        ELSE [tables |-> [tbls EXCEPT ![st].store = StorePut(@, name, symbol),
                                      ![st].numDefinitions = @ + 1],
              symbol |-> symbol]

\* a Define that makes the name a global in whatever table
DefineGlobalA(tbls, st, name) ==
    LET symbol == [Name  |-> name,
                   Index |-> tbls[st].numDefinitions,
                   Scope |-> IF tbls[st].Outer = NilTable \/ name = "a"
                             THEN GlobalScope ELSE LocalScope]
    IN  [tables |-> [tbls EXCEPT ![st].store = StorePut(@, name, symbol),
                                 ![st].numDefinitions = @ + 1],
         symbol |-> symbol]

\* Define on table st of the heap tbls: the new heap and the returned symbol
Define(tbls, st, name) ==
    LET symbol == [Name  |-> name,
                   Index |-> tbls[st].numDefinitions,
                   Scope |-> IF tbls[st].Outer = NilTable
                             THEN GlobalScope ELSE LocalScope]
    IN  [tables |-> [tbls EXCEPT ![st].store = StorePut(@, name, symbol),
                                 ![st].numDefinitions = @ + 1],
         symbol |-> symbol]

\* a DefineBuiltin that counts the builtin as a definition
DefineBuiltinCounts(tbls, s, index, name) ==
    LET symbol == [Name |-> name, Index |-> index, Scope |-> BuiltinScope]
    IN  [tables |-> [tbls EXCEPT ![s].store = StorePut(@, name, symbol),
                                 ![s].numDefinitions = @ + 1],
         symbol |-> symbol]

DefineBuiltin(tbls, s, index, name) ==
    LET symbol == [Name |-> name, Index |-> index, Scope |-> BuiltinScope]
    IN  [tables |-> [tbls EXCEPT ![s].store = StorePut(@, name, symbol)],
         symbol |-> symbol]

\* a Resolve that searches the outer tables before the table itself
RECURSIVE ResolveOuterFirst(_, _, _)
ResolveOuterFirst(tbls, st, name) ==
    LET ok == name \in DOMAIN tbls[st].store
        up == IF tbls[st].Outer # NilTable
              THEN ResolveOuterFirst(tbls, tbls[st].Outer, name)
              ELSE [symbol |-> ZeroSymbol, ok |-> FALSE]
    IN  IF up.ok THEN up
        ELSE [symbol |-> IF ok THEN tbls[st].store[name] ELSE ZeroSymbol,
              ok     |-> ok]

\* a Resolve that looks in the table itself only
ResolveOwnTable(tbls, st, name) ==
    LET ok == name \in DOMAIN tbls[st].store
    IN  [symbol |-> IF ok THEN tbls[st].store[name] ELSE ZeroSymbol,
         ok     |-> ok]

RECURSIVE Resolve(_, _, _)
Resolve(tbls, st, name) ==
    LET ok == name \in DOMAIN tbls[st].store
    IN  IF ~ok /\ tbls[st].Outer # NilTable
        THEN Resolve(tbls, tbls[st].Outer, name)
        ELSE [symbol |-> IF ok THEN tbls[st].store[name] ELSE ZeroSymbol,
              ok     |-> ok]

(***************************************************************************)
(* Runtime values (src/object/object.go).  An object is a record with its  *)
(* kind; an object the program allocates carries its address, so that two  *)
(* references are the same object exactly when the records are equal.      *)
(***************************************************************************)
INTEGER_OBJ == "INTEGER"
BOOLEAN_OBJ == "BOOLEAN"
NULL_OBJ == "NULL"
STRING_OBJ == "STRING"
Builtin_OBJ == "Builtin"
ARRAY_OBJ == "ARRAY"
HASH_OBJ == "HASH"
COMPILED_FUNCTION_OBJECT == "COMPILED_FUNCTION"

\* the nil object.Object: a stack slot or a global never written
Nil == [addr |-> 0, kind |-> "nil"]

\* &object.Integer{Value: v}, allocated at address a
Integer(v, a) == [addr |-> a, kind |-> INTEGER_OBJ, Value |-> v]
\* &object.String{Value: s}
String(s, a) == [addr |-> a, kind |-> STRING_OBJ, Value |-> s]
\* &object.Array{Elements: elements}
Array(elements, a) == [addr |-> a, kind |-> ARRAY_OBJ, Elements |-> elements]
\* &object.Hash{Pairs: pairs}
Hash(pairs, a) == [addr |-> a, kind |-> HASH_OBJ, Pairs |-> pairs]
\* &object.CompiledFunction{Instructions, NumLocals, NumParameters}
CompiledFunction(ins, numLocals, numParameters, a) ==
    [addr |-> a, kind |-> COMPILED_FUNCTION_OBJECT, Instructions |-> ins,
     NumLocals |-> numLocals, NumParameters |-> numParameters]
\* object.Builtin{Fn: ...}; the native function is named, not stored
Builtin(name) == [addr |-> 0, kind |-> Builtin_OBJ, Fn |-> name]

\* the global instances of vm.go
True == [addr |-> 0, kind |-> BOOLEAN_OBJ, Value |-> TRUE]
False == [addr |-> 0, kind |-> BOOLEAN_OBJ, Value |-> FALSE]
Null == [addr |-> 0, kind |-> NULL_OBJ]

\* obj == nil
IsNil(obj) == obj.kind = "nil"

\* obj.Type(); the caller checks for nil first
Type(obj) == obj.kind

(***************************************************************************)
(* Instruction encoding (src/code/code.go).                                *)
(***************************************************************************)
OpConstant == 0
OpAdd == 1
OpPop == 2
OpSub == 3
OpMul == 4
OpDiv == 5
OpTrue == 6
OpFalse == 7
OpEqual == 8
OpNotEqual == 9
OpGreaterThan == 10
OpMinus == 11
OpBang == 12
OpJumpNotTruthy == 13
OpJump == 14
OpNull == 15
OpGetGlobal == 16
OpSetGlobal == 17
\* the opcodes the VM uses that the kept code.go does not list yet
OpArray == 18
OpHash == 19
OpIndex == 20
OpCall == 21
OpReturnValue == 22
OpReturn == 23
OpSetLocal == 24
OpGetLocal == 25
OpGetBuiltin == 26

\* definitions: opcode -> operand widths
OperandWidths(op) ==
    CASE op \in {OpConstant, OpJumpNotTruthy, OpJump, OpGetGlobal, OpSetGlobal,
                 OpArray, OpHash} -> <<2>>
      [] op \in {OpCall, OpSetLocal, OpGetLocal, OpGetBuiltin} -> <<1>>
      [] OTHER -> <<>>

Defined(op) == op \in OpConstant..OpGetBuiltin

\* a PutUint16 that writes the low byte first
PutUint16LittleEndian(o) == <<o % 256, (o % 65536) \div 256>>

\* uint16(o) as two big-endian bytes, byte(o) as one
PutUint16(o) == <<(o % 65536) \div 256, o % 256>>
PutUint8(o) == <<o % 256>>

\* the bytes of operand i: make() zeroes the bytes no operand is written to
RECURSIVE MakeOperands(_, _, _)
MakeOperands(widths, operands, i) ==
    IF i > Len(widths) THEN <<>>
    ELSE (IF i > Len(operands) THEN [k \in 1..widths[i] |-> 0]
          ELSE IF widths[i] = 2 THEN PutUint16(operands[i])
          ELSE PutUint8(operands[i]))
         \o MakeOperands(widths, operands, i + 1)

\* Make(op, operands...): the opcode byte, then the operands
Make(op, operands) ==
    IF ~Defined(op) THEN <<>>
    ELSE <<op>> \o MakeOperands(OperandWidths(op), operands, 1)

\* ReadUint16(ins), ReadUint8(ins) on the slice ins (at least 2, 1 bytes long)
ReadUint16(ins) == ins[1] * 256 + ins[2]
ReadUint8(ins) == ins[1]

\* the slice ins[from:] of a byte sequence (from counts from 0)
SliceFrom(ins, from) == SubSeq(ins, from + 1, Len(ins))

\* Lookup(op): the operand widths of the definition and the error
Lookup(op) ==
    IF Defined(op) THEN [OperandWidths |-> OperandWidths(op), err |-> "nil"]
    ELSE [OperandWidths |-> <<>>, err |-> "opcode " \o ToString(op) \o " not defined"]

\* the loop of ReadOperands from operand i on, offset bytes into ins; slicing
\* past the end of ins, or reading more bytes than are left, panics
RECURSIVE ReadOperandsFrom(_, _, _, _)
ReadOperandsFrom(widths, ins, i, offset) ==
    IF i > Len(widths) THEN [operands |-> <<>>, read |-> offset, err |-> "nil"]
    ELSE IF offset + widths[i] > Len(ins)
    THEN [operands |-> <<>>, read |-> offset,
          err |-> "panic: runtime error: index out of range"]
    ELSE LET operand == IF widths[i] = 2 THEN ReadUint16(SliceFrom(ins, offset))
                        ELSE ReadUint8(SliceFrom(ins, offset))
             rest == ReadOperandsFrom(widths, ins, i + 1, offset + widths[i])
         IN  [rest EXCEPT !.operands = <<operand>> \o @]

\* ReadOperands(def, ins): the operands and the number of bytes read
ReadOperands(def, ins) == ReadOperandsFrom(def.OperandWidths, ins, 1, 0)

\* the loop of Instructions.String() from byte i on: the (opcode, operands) of
\* each instruction; at an opcode without a definition the loop never advances
RECURSIVE Decode(_, _)
Decode(ins, i) ==
    IF i >= Len(ins) THEN [pairs |-> <<>>, err |-> "nil"]
    ELSE LET def == Lookup(ins[i + 1])
             r == ReadOperands(def, SliceFrom(ins, i + 1))
             rest == Decode(ins, i + 1 + r.read)
         IN  IF def.err # "nil" THEN [pairs |-> <<>>, err |-> def.err]
             ELSE IF r.err # "nil" THEN [pairs |-> <<>>, err |-> r.err]
             ELSE [rest EXCEPT !.pairs = <<[op |-> ins[i + 1], operands |-> r.operands]>> \o @]

(***************************************************************************)
(* The virtual machine (src/vm/vm.go).  A VM is a record of the fields of  *)
(* the Go struct; a method is an operator from the VM to the VM it leaves  *)
(* and the error it returns.  A run-time panic of the Go program (an index *)
(* out of range, a nil dereference, a failed type assertion, a division by *)
(* zero) is an error of its own kind that ends the process.                *)
(***************************************************************************)
StackSize == 2048
GlobalsSize == 65536
MaxFrames == 1024

NoError == "nil"
PanicIndex == "panic: runtime error: index out of range"
PanicNil == "panic: runtime error: invalid memory address or nil pointer dereference"
PanicConversion == "panic: interface conversion"
PanicDivide == "panic: runtime error: integer divide by zero"
Panics == {PanicIndex, PanicNil, PanicConversion, PanicDivide}
IsPanic(err) == err \in Panics

\* a Go array or slice of objects: the slots written so far; the others hold nil
EmptyArray == [i \in {} |-> Nil]
At(arr, i) == IF i \in DOMAIN arr THEN arr[i] ELSE Nil
Put(arr, i, obj) == [j \in DOMAIN arr \cup {i} |-> IF j = i THEN obj ELSE arr[j]]

\* the results of a method: the VM it leaves, the error, and the value returned
Ok(v) == [vm |-> v, err |-> NoError, obj |-> Nil]
OkObj(v, o) == [vm |-> v, err |-> NoError, obj |-> o]
Fail(v, e) == [vm |-> v, err |-> e, obj |-> Nil]

NewFrame(fn, basePointer) == [fn |-> fn, ip |-> -1, basePointer |-> basePointer]

\* vm.currentFrame(); the caller checks 1 <= framesIndex <= MaxFrames
currentFrame(v) == v.frames[v.framesIndex - 1]

\* vm.currentFrame().ip += n
AddIp(v, n) == [v EXCEPT !.frames[v.framesIndex - 1].ip = @ + n]
\* vm.currentFrame().ip = pos
SetIp(v, pos) == [v EXCEPT !.frames[v.framesIndex - 1].ip = pos]

pushFrame(v, f) ==
    IF v.framesIndex < 0 \/ v.framesIndex >= MaxFrames THEN Fail(v, PanicIndex)
    ELSE Ok([v EXCEPT !.frames = Put(@, v.framesIndex, f),
                      !.framesIndex = @ + 1])

popFrame(v) ==
    IF v.framesIndex - 1 < 0 \/ v.framesIndex - 1 >= MaxFrames
    THEN Fail([v EXCEPT !.framesIndex = @ - 1], PanicIndex)
    ELSE OkObj([v EXCEPT !.framesIndex = @ - 1], v.frames[v.framesIndex - 1])

\* a push that lets sp reach one past the last slot
pushOffByOne(v, obj) ==
    IF v.sp > StackSize THEN Fail(v, "stack overflow")
    ELSE IF v.sp < 0 \/ v.sp >= StackSize THEN Fail(v, PanicIndex)
    ELSE Ok([v EXCEPT !.stack = Put(@, v.sp, obj), !.sp = @ + 1])

push(v, obj) ==
    IF v.sp >= StackSize THEN Fail(v, "stack overflow")
    ELSE IF v.sp < 0 THEN Fail(v, PanicIndex)
    ELSE Ok([v EXCEPT !.stack = Put(@, v.sp, obj), !.sp = @ + 1])

pop(v) ==
    IF v.sp - 1 < 0 \/ v.sp - 1 >= StackSize THEN Fail(v, PanicIndex)
    ELSE OkObj([v EXCEPT !.sp = @ - 1], At(v.stack, v.sp - 1))

\* LastPoppedStackElement(); the caller checks 0 <= sp < StackSize
LastPoppedStackElement(v) == At(v.stack, v.sp)

\* mainFn of New: the program's instructions wrapped in a function
MainFn(instructions) == CompiledFunction(instructions, 0, 0, 0)

\* New(byteCode): the VM's own globals array is array 0 of the heap
OwnGlobals == 0
New(byteCode) ==
    [constants   |-> byteCode.Constants,
     stack       |-> EmptyArray,
     frames      |-> Put(EmptyArray, 0, NewFrame(MainFn(byteCode.Instructions), 0)),
     framesIndex |-> 1,
     sp          |-> 0,
     globals     |-> OwnGlobals]

\* a NewWithGlobalsStore that keeps the globals array New made
NewWithOwnGlobals(bytecode, s) == New(bytecode)

NewWithGlobalsStore(bytecode, s) == [New(bytecode) EXCEPT !.globals = s]

isTruthy(obj) ==
    CASE obj.kind = BOOLEAN_OBJ -> obj.Value
      [] obj.kind = NULL_OBJ -> FALSE
      [] OTHER -> TRUE

nativeBoolToBooleanObject(input) == IF input THEN True ELSE False

(***************************************************************************)
(* Hash keys (src/object/object.go, lines 132-162).  A uint64 is its eight *)
(* bytes, most significant first.                                          *)
(***************************************************************************)
\* byte i (0 = least significant) of the two's complement of the integer n
ByteOf(n, i) ==
    IF n >= 0 THEN IF i >= 4 THEN 0 ELSE (n \div (256 ^ i)) % 256
    ELSE IF i >= 4 THEN 255
    ELSE (((n + 2147483647 + 1) \div (256 ^ i)) % 256) + (IF i = 3 THEN 128 ELSE 0)

\* uint64(n)
Uint64(n) == [k \in 1..8 |-> ByteOf(n, 8 - k)]

\* x * y mod 2^64 on byte vectors: digit d (0 = least significant) of the product
RECURSIVE MulCarry(_, _, _)
MulCarry(x, y, d) ==
    IF d < 0 THEN 0
    ELSE LET sum == LET Term[i \in 0..(d + 1)] ==
                            IF i > d THEN 0
                            ELSE x[8 - i] * y[8 - (d - i)] + Term[i + 1]
                    IN  Term[0]
         IN  (sum + MulCarry(x, y, d - 1)) \div 256

MulDigit(x, y, d) ==
    LET sum == LET Term[i \in 0..(d + 1)] ==
                       IF i > d THEN 0
                       ELSE x[8 - i] * y[8 - (d - i)] + Term[i + 1]
               IN  Term[0]
    IN  (sum + MulCarry(x, y, d - 1)) % 256

Mul64(x, y) == [k \in 1..8 |-> MulDigit(x, y, 8 - k)]

\* bitwise xor of two bytes
RECURSIVE XorByte(_, _, _)
XorByte(a, b, bits) ==
    IF bits = 0 THEN 0
    ELSE (((a % 2) + (b % 2)) % 2) + 2 * XorByte(a \div 2, b \div 2, bits - 1)

\* hash/fnv: the 64-bit FNV-1a offset basis and prime
FnvOffset64 == <<203, 242, 156, 228, 132, 34, 35, 37>>
FnvPrime64 == <<0, 0, 1, 0, 0, 0, 1, 179>>

\* fnv.New64a over the bytes of s from position i on, h the hash so far
RECURSIVE Fnv64a(_, _, _)
Fnv64a(s, i, h) ==
    IF i > Len(s) THEN h
    ELSE Fnv64a(s, i + 1, Mul64([h EXCEPT ![8] = XorByte(@, s[i], 8)], FnvPrime64))

Hashable(obj) == obj.kind \in {INTEGER_OBJ, BOOLEAN_OBJ, STRING_OBJ}

\* obj.HashKey() of a Hashable
HashKey(obj) ==
    CASE obj.kind = BOOLEAN_OBJ ->
           [Type |-> BOOLEAN_OBJ, Value |-> Uint64(IF obj.Value THEN 1 ELSE 0)]
      [] obj.kind = INTEGER_OBJ ->
           [Type |-> INTEGER_OBJ, Value |-> Uint64(obj.Value)]
      [] obj.kind = STRING_OBJ ->
           [Type |-> STRING_OBJ, Value |-> Fnv64a(obj.Value, 1, FnvOffset64)]

(***************************************************************************)
(* The operator helpers of the VM (src/vm/vm.go, lines 268-492).  The      *)
(* address a is the one the Go allocator gives the object a helper makes.  *)
(***************************************************************************)
\* Go's integer division truncates toward zero
Quot(x, y) ==
    LET ax == IF x < 0 THEN -x ELSE x
        ay == IF y < 0 THEN -y ELSE y
    IN  IF (x < 0) = (y < 0) THEN ax \div ay ELSE -(ax \div ay)

executeBinaryIntegerOperation(v, op, left, right, a) ==
    IF left.kind # INTEGER_OBJ \/ right.kind # INTEGER_OBJ THEN Fail(v, PanicConversion)
    ELSE LET leftValue == left.Value
             rightValue == right.Value
         IN  CASE op = OpAdd -> push(v, Integer(leftValue + rightValue, a))
               [] op = OpSub -> push(v, Integer(leftValue - rightValue, a))
               [] op = OpMul -> push(v, Integer(leftValue * rightValue, a))
               [] op = OpDiv -> IF rightValue = 0 THEN Fail(v, PanicDivide)
                                ELSE push(v, Integer(Quot(leftValue, rightValue), a))
               [] OTHER -> Fail(v, "unknown integer operator: " \o ToString(op))

executeBinaryStringOperation(v, op, left, right, a) ==
    IF op # OpAdd THEN Fail(v, "unknown string operator: " \o ToString(op))
    ELSE IF left.kind # STRING_OBJ \/ right.kind # STRING_OBJ THEN Fail(v, PanicConversion)
    ELSE push(v, String(left.Value \o right.Value, a))

executeBinaryOperation(v, op, a) ==
    LET r1 == pop(v)
        right == r1.obj
        r2 == pop(r1.vm)
        left == r2.obj
    IN  IF r1.err # NoError THEN r1
        ELSE IF r2.err # NoError THEN r2
        ELSE IF IsNil(right) THEN Fail(r2.vm, PanicNil)
        ELSE LET rightType == Type(right)
                 leftType == Type(right)
             IN  IF leftType = INTEGER_OBJ /\ rightType = INTEGER_OBJ
                 THEN executeBinaryIntegerOperation(r2.vm, op, left, right, a)
                 ELSE IF leftType = STRING_OBJ /\ rightType = STRING_OBJ
                 THEN executeBinaryStringOperation(r2.vm, op, left, right, a)
                 ELSE Fail(r2.vm, "unsupported types for binary operation: "
                                   \o leftType \o " " \o rightType)

\* right == left on two object.Object values: the same object
SameObject(x, y) ==
    /\ x.kind = y.kind
    /\ x.addr = y.addr
    /\ x.kind = BOOLEAN_OBJ => x.Value = y.Value

\* an integer comparison whose GreaterThan compares the operands the other way round
executeIntegerComparisonSwapped(v, op, left, right) ==
    LET leftValue == left.Value
        rightValue == right.Value
    IN  CASE op = OpEqual -> push(v, nativeBoolToBooleanObject(rightValue = leftValue))
          [] op = OpNotEqual -> push(v, nativeBoolToBooleanObject(rightValue # leftValue))
          [] op = OpGreaterThan -> push(v, nativeBoolToBooleanObject(rightValue > leftValue))
          [] OTHER -> Fail(v, "unknown operator: " \o ToString(op))

executeIntegerComparison(v, op, left, right) ==
    LET leftValue == left.Value
        rightValue == right.Value
    IN  CASE op = OpEqual -> push(v, nativeBoolToBooleanObject(rightValue = leftValue))
          [] op = OpNotEqual -> push(v, nativeBoolToBooleanObject(rightValue # leftValue))
          [] op = OpGreaterThan -> push(v, nativeBoolToBooleanObject(leftValue > rightValue))
          [] OTHER -> Fail(v, "unknown operator: " \o ToString(op))

\* a comparison that takes objects of one kind for equal
executeComparisonByKind(v, op) ==
    LET r1 == pop(v)
        right == r1.obj
        r2 == pop(r1.vm)
        left == r2.obj
    IN  IF r1.err # NoError THEN r1
        ELSE IF r2.err # NoError THEN r2
        ELSE IF IsNil(left) \/ IsNil(right) THEN Fail(r2.vm, PanicNil)
        ELSE IF left.kind = INTEGER_OBJ /\ right.kind = INTEGER_OBJ
        THEN executeIntegerComparison(r2.vm, op, left, right)
        ELSE CASE op = OpEqual ->
                    push(r2.vm, nativeBoolToBooleanObject(right.kind = left.kind))
               [] op = OpNotEqual ->
                    push(r2.vm, nativeBoolToBooleanObject(right.kind # left.kind))
               [] OTHER ->
                    Fail(r2.vm, "unknown operator: " \o ToString(op) \o " ("
                                 \o left.kind \o " " \o right.kind \o ")")

executeComparison(v, op) ==
    LET r1 == pop(v)
        right == r1.obj
        r2 == pop(r1.vm)
        left == r2.obj
    IN  IF r1.err # NoError THEN r1
        ELSE IF r2.err # NoError THEN r2
        ELSE IF IsNil(left) THEN Fail(r2.vm, PanicNil)
        ELSE IF left.kind = INTEGER_OBJ /\ IsNil(right) THEN Fail(r2.vm, PanicNil)
        ELSE IF left.kind = INTEGER_OBJ /\ right.kind = INTEGER_OBJ
        THEN executeIntegerComparison(r2.vm, op, left, right)
        ELSE CASE op = OpEqual ->
                    push(r2.vm, nativeBoolToBooleanObject(SameObject(right, left)))
               [] op = OpNotEqual ->
                    push(r2.vm, nativeBoolToBooleanObject(~SameObject(right, left)))
               [] OTHER ->
                    IF IsNil(right) THEN Fail(r2.vm, PanicNil)
                    ELSE Fail(r2.vm, "unknown operator: " \o ToString(op) \o " ("
                                      \o left.kind \o " " \o right.kind \o ")")

\* a Bang that takes Null for truthy
executeBangOperatorNullTruthy(v) ==
    LET r == pop(v)
        operand == r.obj
    IN  IF r.err # NoError THEN r
        ELSE IF SameObject(operand, True) THEN push(r.vm, False)
        ELSE IF SameObject(operand, False) THEN push(r.vm, True)
        ELSE push(r.vm, False)

executeBangOperator(v) ==
    LET r == pop(v)
        operand == r.obj
    IN  IF r.err # NoError THEN r
        ELSE IF SameObject(operand, True) THEN push(r.vm, False)
        ELSE IF SameObject(operand, False) THEN push(r.vm, True)
        ELSE IF SameObject(operand, Null) THEN push(r.vm, True)
        ELSE push(r.vm, False)

executeMinusOperator(v, a) ==
    LET r == pop(v)
        operand == r.obj
    IN  IF r.err # NoError THEN r
        ELSE IF IsNil(operand) THEN Fail(r.vm, PanicNil)
        ELSE IF operand.kind # INTEGER_OBJ
        THEN Fail(r.vm, "unsupported type for negation: " \o operand.kind)
        ELSE push(r.vm, Integer(-operand.Value, a))

\* buildArray(startIndex, endIndex); the caller checks the indices
buildArray(v, startIndex, endIndex, a) ==
    Array([i \in 1..(endIndex - startIndex) |-> At(v.stack, startIndex + i - 1)], a)

\* the pairs of buildHash for the slots i, i+2, ... below endIndex, added to pairs
RECURSIVE buildHashFrom(_, _, _, _)
buildHashFrom(v, i, endIndex, hashedPairs) ==
    IF i >= endIndex THEN [err |-> NoError, pairs |-> hashedPairs]
    ELSE IF i < 0 \/ i + 1 >= StackSize THEN [err |-> PanicIndex, pairs |-> hashedPairs]
    ELSE LET key == At(v.stack, i)
             value == At(v.stack, i + 1)
             pair == [Key |-> key, Value |-> value]
         IN  IF IsNil(key) THEN [err |-> PanicNil, pairs |-> hashedPairs]
             ELSE IF ~Hashable(key)
             THEN [err |-> "unusable as hash key: " \o key.kind, pairs |-> hashedPairs]
             ELSE buildHashFrom(v, i + 2, endIndex,
                     [k \in DOMAIN hashedPairs \cup {HashKey(key)} |->
                         IF k = HashKey(key) THEN pair ELSE hashedPairs[k]])

\* a buildHash that keeps the first pair of a hash key
RECURSIVE buildHashFirstFrom(_, _, _, _)
buildHashFirstFrom(v, i, endIndex, hashedPairs) ==
    IF i >= endIndex THEN [err |-> NoError, pairs |-> hashedPairs]
    ELSE IF i < 0 \/ i + 1 >= StackSize THEN [err |-> PanicIndex, pairs |-> hashedPairs]
    ELSE LET key == At(v.stack, i)
             pair == [Key |-> key, Value |-> At(v.stack, i + 1)]
         IN  IF IsNil(key) THEN [err |-> PanicNil, pairs |-> hashedPairs]
             ELSE IF ~Hashable(key)
             THEN [err |-> "unusable as hash key: " \o key.kind, pairs |-> hashedPairs]
             ELSE buildHashFirstFrom(v, i + 2, endIndex,
                     [k \in DOMAIN hashedPairs \cup {HashKey(key)} |->
                         IF k \in DOMAIN hashedPairs THEN hashedPairs[k] ELSE pair])
buildHashFirstWins(v, startIndex, endIndex, a) ==
    LET r == buildHashFirstFrom(v, startIndex, endIndex, [k \in {} |-> Nil])
    IN  IF r.err # NoError THEN Fail(v, r.err)
        ELSE OkObj(v, Hash(r.pairs, a))

buildHash(v, startIndex, endIndex, a) ==
    LET r == buildHashFrom(v, startIndex, endIndex, [k \in {} |-> Nil])
    IN  IF r.err # NoError THEN Fail(v, r.err)
        ELSE OkObj(v, Hash(r.pairs, a))

executeArrayIndex(v, array, index) ==
    LET i == index.Value
        max == Len(array.Elements) - 1
    IN  IF i < 0 \/ i > max THEN push(v, Null)
        ELSE push(v, array.Elements[i + 1])

executeHashIndex(v, hash, index) ==
    IF ~Hashable(index) THEN Fail(v, "unusable as hash key: " \o index.kind)
    ELSE IF HashKey(index) \notin DOMAIN hash.Pairs THEN push(v, Null)
    ELSE push(v, hash.Pairs[HashKey(index)].Value)

executeIndexExpression(v, left, index) ==
    IF IsNil(left) THEN Fail(v, PanicNil)
    ELSE IF left.kind = ARRAY_OBJ /\ IsNil(index) THEN Fail(v, PanicNil)
    ELSE IF left.kind = ARRAY_OBJ /\ index.kind = INTEGER_OBJ
    THEN executeArrayIndex(v, left, index)
    ELSE IF left.kind = HASH_OBJ
    THEN (IF IsNil(index) THEN Fail(v, PanicNil) ELSE executeHashIndex(v, left, index))
    ELSE Fail(v, "index operator not supported: " \o left.kind)

\* a callFunction that takes the stack pointer itself as the base pointer
callFunctionBaseAtSp(v, numArgs) ==
    LET fn == At(v.stack, v.sp - 1 - numArgs)
        r == pushFrame(v, NewFrame(fn, v.sp))
    IN  IF v.sp - 1 - numArgs < 0 \/ v.sp - 1 - numArgs >= StackSize
        THEN Fail(v, PanicIndex)
        ELSE IF fn.kind # COMPILED_FUNCTION_OBJECT THEN Fail(v, "calling non-function")
        ELSE IF fn.NumParameters # numArgs
        THEN Fail(v, "wrong number of arguments: want=" \o ToString(fn.NumParameters)
                      \o ", got=" \o ToString(numArgs))
        ELSE IF r.err # NoError THEN r
        ELSE Ok([r.vm EXCEPT !.sp = v.sp + fn.NumLocals])

\* a callFunction that pushes the frame before it checks the arity
callFunctionChecksLate(v, numArgs) ==
    LET fn == At(v.stack, v.sp - 1 - numArgs)
        r == pushFrame(v, NewFrame(fn, v.sp - numArgs))
    IN  IF v.sp - 1 - numArgs < 0 \/ v.sp - 1 - numArgs >= StackSize
        THEN Fail(v, PanicIndex)
        ELSE IF fn.kind # COMPILED_FUNCTION_OBJECT THEN Fail(v, "calling non-function")
        ELSE IF r.err # NoError THEN r
        ELSE IF fn.NumParameters # numArgs
        THEN Fail(r.vm, "wrong number of arguments: want=" \o ToString(fn.NumParameters)
                         \o ", got=" \o ToString(numArgs))
        ELSE Ok([r.vm EXCEPT !.sp = (v.sp - numArgs) + fn.NumLocals])

callFunction(v, numArgs) ==
    LET fn == At(v.stack, v.sp - 1 - numArgs)
        frame == NewFrame(fn, v.sp - numArgs)
        r == pushFrame(v, frame)
    IN  IF v.sp - 1 - numArgs < 0 \/ v.sp - 1 - numArgs >= StackSize
        THEN Fail(v, PanicIndex)
        ELSE IF fn.kind # COMPILED_FUNCTION_OBJECT THEN Fail(v, "calling non-function")
        ELSE IF fn.NumParameters # numArgs
        THEN Fail(v, "wrong number of arguments: want=" \o ToString(fn.NumParameters)
                      \o ", got=" \o ToString(numArgs))
        ELSE IF r.err # NoError THEN r
        ELSE Ok([r.vm EXCEPT !.sp = frame.basePointer + fn.NumLocals])

(***************************************************************************)
(* The AST the parser hands to the compiler (src/ast/ast.go): a node is a  *)
(* record with the name of its Go type.                                    *)
(***************************************************************************)
IntegerLiteral(v) == [node |-> "IntegerLiteral", Value |-> v]
Boolean(b) == [node |-> "Boolean", Value |-> b]
StringLiteral(s) == [node |-> "StringLiteral", Value |-> s]
Identifier(name) == [node |-> "Identifier", Value |-> name]
PrefixExpression(op, right) == [node |-> "PrefixExpression", Operator |-> op, Right |-> right]
InfixExpression(left, op, right) ==
    [node |-> "InfixExpression", Left |-> left, Operator |-> op, Right |-> right]
\* an IfExpression without an else has the empty sequence as Alternative
NoBlock == <<>>
IfExpression(cond, cons, alt) ==
    [node |-> "IfExpression", Condition |-> cond, Consequence |-> cons, Alternative |-> alt]
HasAlternative(ifNode) == Len(ifNode.Alternative) > 0
FunctionLiteral(params, body) ==
    [node |-> "FunctionLiteral", Parameters |-> params, Body |-> body]
CallExpression(fn, args) == [node |-> "CallExpression", Function |-> fn, Arguments |-> args]
ArrayLiteral(elements) == [node |-> "ArrayLiteral", Elements |-> elements]
HashLiteral(pairs) == [node |-> "HashLiteral", Pairs |-> pairs]
IndexExpression(left, index) == [node |-> "IndexExpression", Left |-> left, Index |-> index]
LetStatement(name, value) == [node |-> "LetStatement", Name |-> name, Value |-> value]
ReturnStatement(value) == [node |-> "ReturnStatement", ReturnValue |-> value]
ExpressionStatement(e) == [node |-> "ExpressionStatement", Expression |-> e]
\* a BlockStatement is <<"block", statement, ...>>, so that an else block
\* without statements differs from no else block
BlockStatement(stmts) == <<"block">> \o stmts
Statements(block) == Tail(block)

(***************************************************************************)
(* The compiler (src/compiler/compiler.go, lines 1-149, and the lowering   *)
(* rules for the node types that file does not compile yet).  A Compiler   *)
(* is a record; a method is an operator to the Compiler it leaves, and     *)
(* err # NoError there means that the method returned that error.          *)
(***************************************************************************)
\* the registry of built-in functions, in definition order
Builtins == <<"len", "first", "last", "rest", "push", "puts">>

\* EmittedInstruction{Opcode, Position}; no instruction emitted yet is -1
NoInstruction == [Opcode |-> -1, Position |-> -1]

\* NewWithState(s, constants): the heap tbls holds the table s
NewWithState(tbls, s, constants) ==
    [instructions |-> <<>>, constants |-> constants,
     tables |-> tbls, symbolTable |-> s,
     lastInstruction |-> NoInstruction, previousInstruction |-> NoInstruction,
     err |-> NoError]

\* the global table with every builtin defined, in table 1 of a fresh heap
RECURSIVE DefineBuiltins(_, _)
DefineBuiltins(tbls, i) ==
    IF i > Len(Builtins) THEN tbls
    ELSE DefineBuiltins(DefineBuiltin(tbls, 1, i - 1, Builtins[i]).tables, i + 1)

\* compiler.New()
NewCompiler == NewWithState(DefineBuiltins(<<NewSymbolTable>>, 1), 1, <<>>)

\* an addConstant that does not append a literal the pool already holds
addConstantDeduplicated(c, obj) ==
    IF \E k \in 1..Len(c.constants) :
            /\ c.constants[k].kind = obj.kind
            /\ obj.kind \in {INTEGER_OBJ, STRING_OBJ}
            /\ c.constants[k].Value = obj.Value
    THEN c
    ELSE [c EXCEPT !.constants = Append(@, obj)]

addConstant(c, obj) == [c EXCEPT !.constants = Append(@, obj)]

addInstruction(c, ins) == [c EXCEPT !.instructions = @ \o ins]

\* emit(op, operands...); the position it returns is Len(c.instructions)
emit(c, op, operands) ==
    [addInstruction(c, Make(op, operands)) EXCEPT
        !.previousInstruction = c.lastInstruction,
        !.lastInstruction = [Opcode |-> op, Position |-> Len(c.instructions)]]

lastInstructionIs(c, op) ==
    Len(c.instructions) > 0 /\ c.lastInstruction.Opcode = op

removeLastPop(c) ==
    [c EXCEPT !.instructions = SubSeq(@, 1, c.lastInstruction.Position),
              !.lastInstruction = c.previousInstruction]

replaceInstruction(c, pos, newInstruction) ==
    [c EXCEPT !.instructions =
        [i \in 1..Len(@) |->
            IF i > pos /\ i <= pos + Len(newInstruction)
            THEN newInstruction[i - pos] ELSE @[i]]]

changeOperand(c, opPos, operand) ==
    replaceInstruction(c, opPos, Make(c.instructions[opPos + 1], <<operand>>))

\* the opcode of an infix operator other than "<"; -1 for an unknown one
InfixOpcode(operator) ==
    CASE operator = "+" -> OpAdd
      [] operator = "-" -> OpSub
      [] operator = "/" -> OpDiv
      [] operator = "*" -> OpMul
      [] operator = ">" -> OpGreaterThan
      [] operator = "==" -> OpEqual
      [] operator = "!=" -> OpNotEqual
      [] OTHER -> -1

\* Define(name) for each parameter, in order
RECURSIVE DefineParameters(_, _, _)
DefineParameters(c, params, i) ==
    IF i > Len(params) THEN c
    ELSE DefineParameters(
            [c EXCEPT !.tables = Define(c.tables, c.symbolTable, params[i]).tables],
            params, i + 1)

\* the bytes of the decimal numeral of n >= 0
RECURSIVE Digits(_)
Digits(n) == IF n < 10 THEN <<48 + n>> ELSE Digits(n \div 10) \o <<48 + (n % 10)>>

\* the bytes of the one-letter names the programs of the model use as hash keys
NameBytes(name) ==
    CASE name = "a" -> <<97>>
      [] name = "b" -> <<98>>
      [] name = "c" -> <<99>>
      [] name = "p" -> <<112>>
      [] name = "q" -> <<113>>
      [] name = "r" -> <<114>>
      [] OTHER -> <<>>

\* key.String() of a hash key that is a literal or an identifier, as bytes
KeyString(key) ==
    CASE key.node = "IntegerLiteral" -> Digits(key.Value)
      [] key.node = "StringLiteral" -> key.Value
      [] key.node = "Boolean" ->
            IF key.Value THEN <<116, 114, 117, 101>> ELSE <<102, 97, 108, 115, 101>>
      [] key.node = "Identifier" -> NameBytes(key.Value)
      [] OTHER -> <<>>

\* x < y on Go strings
RECURSIVE StringLess(_, _)
StringLess(x, y) ==
    IF Len(y) = 0 THEN FALSE
    ELSE IF Len(x) = 0 THEN TRUE
    ELSE IF Head(x) # Head(y) THEN Head(x) < Head(y)
    ELSE StringLess(Tail(x), Tail(y))

\* the pairs of a hash literal sorted by key.String()
RECURSIVE SortPairs(_)
SortPairs(pairs) ==
    IF Len(pairs) <= 1 THEN pairs
    ELSE LET least == CHOOSE i \in 1..Len(pairs) :
                        \A j \in 1..Len(pairs) :
                            \/ StringLess(KeyString(pairs[i].Key), KeyString(pairs[j].Key))
                            \/ (~StringLess(KeyString(pairs[j].Key), KeyString(pairs[i].Key))
                                /\ i <= j)
         IN  <<pairs[least]>>
             \o SortPairs([k \in 1..(Len(pairs) - 1) |->
                              IF k < least THEN pairs[k] ELSE pairs[k + 1]])

RECURSIVE Compile(_, _)
RECURSIVE CompileEach(_, _, _)
RECURSIVE CompilePairs(_, _, _)

\* Compile of nodes[i], nodes[i+1], ... until one fails
CompileEach(c, nodes, i) ==
    IF i > Len(nodes) \/ c.err # NoError THEN c
    ELSE CompileEach(Compile(c, nodes[i]), nodes, i + 1)

\* Compile of the key, then the value, of each pair
CompilePairs(c, pairs, i) ==
    IF i > Len(pairs) \/ c.err # NoError THEN c
    ELSE LET k == Compile(c, pairs[i].Key)
         IN  IF k.err # NoError THEN k
             ELSE CompilePairs(Compile(k, pairs[i].Value), pairs, i + 1)

\* Compile of a block, then the removal of a trailing Pop
CompileBranch(c, block) ==
    LET b == CompileEach(c, Statements(block), 1)
    IN  IF b.err = NoError /\ lastInstructionIs(b, OpPop) THEN removeLastPop(b) ELSE b

CompileIf(c, node) ==
    LET c1 == Compile(c, node.Condition)
        jumpNotTruthyPos == Len(c1.instructions)
        c2 == emit(c1, OpJumpNotTruthy, <<9999>>)
        c3 == CompileBranch(c2, node.Consequence)
        jumpPos == Len(c3.instructions)
        c4 == emit(c3, OpJump, <<9999>>)
        c5 == changeOperand(c4, jumpNotTruthyPos, Len(c4.instructions))
        c6 == IF HasAlternative(node) THEN CompileBranch(c5, node.Alternative)
              ELSE emit(c5, OpNull, <<>>)
    IN  IF c1.err # NoError THEN c1
        ELSE IF c3.err # NoError THEN c3
        ELSE IF c6.err # NoError THEN c6
        ELSE changeOperand(c6, jumpPos, Len(c6.instructions))

CompileLet(c, node) ==
    LET c1 == Compile(c, node.Value)
        d == Define(c1.tables, c1.symbolTable, node.Name)
        c2 == [c1 EXCEPT !.tables = d.tables]
    IN  IF c1.err # NoError THEN c1
        ELSE IF d.symbol.Scope = GlobalScope
        THEN emit(c2, OpSetGlobal, <<d.symbol.Index>>)
        ELSE emit(c2, OpSetLocal, <<d.symbol.Index>>)

CompileIdentifier(c, node) ==
    LET r == Resolve(c.tables, c.symbolTable, node.Value)
    IN  IF ~r.ok THEN [c EXCEPT !.err = "undefined variable: " \o node.Value]
        ELSE CASE r.symbol.Scope = GlobalScope -> emit(c, OpGetGlobal, <<r.symbol.Index>>)
               [] r.symbol.Scope = LocalScope -> emit(c, OpGetLocal, <<r.symbol.Index>>)
               [] OTHER -> emit(c, OpGetBuiltin, <<r.symbol.Index>>)

CompileFunction(c, node) ==
    LET inner == [c EXCEPT !.instructions = <<>>,
                           !.lastInstruction = NoInstruction,
                           !.previousInstruction = NoInstruction,
                           !.tables = Append(@, NewEnclosedSymbolTable(c.symbolTable)),
                           !.symbolTable = Len(c.tables) + 1]
        c1 == DefineParameters(inner, node.Parameters, 1)
        c2 == CompileEach(c1, Statements(node.Body), 1)
        c3 == IF lastInstructionIs(c2, OpPop)
              THEN [replaceInstruction(c2, c2.lastInstruction.Position,
                                       Make(OpReturnValue, <<>>))
                       EXCEPT !.lastInstruction.Opcode = OpReturnValue]
              ELSE IF Len(c2.instructions) = 0 THEN emit(c2, OpReturn, <<>>)
              ELSE c2
        compiledFn == CompiledFunction(c3.instructions,
                                       c3.tables[c3.symbolTable].numDefinitions,
                                       Len(node.Parameters), Len(c3.constants) + 1)
        outer == [c3 EXCEPT !.instructions = c.instructions,
                            !.lastInstruction = c.lastInstruction,
                            !.previousInstruction = c.previousInstruction,
                            !.symbolTable = c.symbolTable]
    IN  IF c2.err # NoError THEN c2
        ELSE emit(addConstant(outer, compiledFn), OpConstant, <<Len(outer.constants)>>)

\* Compile(node) for a statement or an expression; a constant the compiler
\* allocates has the address index + 1
Compile(c, node) ==
    IF c.err # NoError THEN c
    ELSE CASE node.node = "ExpressionStatement" ->
                LET c1 == Compile(c, node.Expression)
                IN  IF c1.err # NoError THEN c1 ELSE emit(c1, OpPop, <<>>)
           [] node.node = "InfixExpression" ->
                IF node.Operator = "<"
                THEN LET c1 == Compile(c, node.Right)
                         c2 == Compile(c1, node.Left)
                     IN  IF c1.err # NoError THEN c1
                         ELSE IF c2.err # NoError THEN c2
                         ELSE emit(c2, OpGreaterThan, <<>>)
                ELSE LET c1 == Compile(c, node.Left)
                         c2 == Compile(c1, node.Right)
                     IN  IF c1.err # NoError THEN c1
                         ELSE IF c2.err # NoError THEN c2
                         ELSE IF InfixOpcode(node.Operator) = -1
                         THEN [c2 EXCEPT !.err = "unknown operator " \o node.Operator]
                         ELSE emit(c2, InfixOpcode(node.Operator), <<>>)
           [] node.node = "PrefixExpression" ->
                LET c1 == Compile(c, node.Right)
                IN  IF c1.err # NoError THEN c1
                    ELSE CASE node.Operator = "!" -> emit(c1, OpBang, <<>>)
                           [] node.Operator = "-" -> emit(c1, OpMinus, <<>>)
                           [] OTHER ->
                                [c1 EXCEPT !.err = "unknown operator " \o node.Operator]
           [] node.node = "IntegerLiteral" ->
                emit(addConstant(c, Integer(node.Value, Len(c.constants) + 1)),
                     OpConstant, <<Len(c.constants)>>)
           [] node.node = "Boolean" ->
                IF node.Value THEN emit(c, OpTrue, <<>>) ELSE emit(c, OpFalse, <<>>)
           [] node.node = "StringLiteral" ->
                emit(addConstant(c, String(node.Value, Len(c.constants) + 1)),
                     OpConstant, <<Len(c.constants)>>)
           [] node.node = "IfExpression" -> CompileIf(c, node)
           [] node.node = "LetStatement" -> CompileLet(c, node)
           [] node.node = "Identifier" -> CompileIdentifier(c, node)
           [] node.node = "ArrayLiteral" ->
                LET c1 == CompileEach(c, node.Elements, 1)
                IN  IF c1.err # NoError THEN c1
                    ELSE emit(c1, OpArray, <<Len(node.Elements)>>)
           [] node.node = "HashLiteral" ->
                LET c1 == CompilePairs(c, SortPairs(node.Pairs), 1)
                IN  IF c1.err # NoError THEN c1
                    ELSE emit(c1, OpHash, <<Len(node.Pairs) * 2>>)
           [] node.node = "IndexExpression" ->
                LET c1 == Compile(c, node.Left)
                    c2 == Compile(c1, node.Index)
                IN  IF c1.err # NoError THEN c1
                    ELSE IF c2.err # NoError THEN c2
                    ELSE emit(c2, OpIndex, <<>>)
           [] node.node = "FunctionLiteral" -> CompileFunction(c, node)
           [] node.node = "CallExpression" ->
                LET c1 == Compile(c, node.Function)
                    c2 == CompileEach(c1, node.Arguments, 1)
                IN  IF c1.err # NoError THEN c1
                    ELSE IF c2.err # NoError THEN c2
                    ELSE emit(c2, OpCall, <<Len(node.Arguments)>>)
           [] node.node = "ReturnStatement" ->
                LET c1 == Compile(c, node.ReturnValue)
                IN  IF c1.err # NoError THEN c1 ELSE emit(c1, OpReturnValue, <<>>)
           [] OTHER -> c

\* Compile(program): the statements in order
CompileProgram(c, program) == CompileEach(c, program, 1)

\* Bytecode()
Bytecode(c) == [Instructions |-> c.instructions, Constants |-> c.constants]

(***************************************************************************)
(* One iteration of the loop of Run (src/vm/vm.go, lines 105-263): the     *)
(* body of each case of the switch, from the VM after the increment of ip. *)
(* g is the globals array the VM points to, a the address of the object    *)
(* the case allocates.                                                     *)
(***************************************************************************)
\* instructions[ip+1:] read as an operand of the given width
Operand(v, width) ==
    LET ins == SliceFrom(currentFrame(v).fn.Instructions, currentFrame(v).ip + 1)
    IN  IF Len(ins) < width THEN [err |-> PanicIndex, value |-> 0]
        ELSE [err |-> NoError,
              value |-> IF width = 2 THEN ReadUint16(ins) ELSE ReadUint8(ins)]

caseOpConstant(v) ==
    LET constIndex == Operand(v, 2)
        v1 == AddIp(v, 2)
    IN  IF constIndex.err # NoError THEN Fail(v, constIndex.err)
        ELSE IF constIndex.value >= Len(v.constants) THEN Fail(v1, PanicIndex)
        ELSE push(v1, v.constants[constIndex.value + 1])

caseOpPop(v) == pop(v)

caseOpJump(v) ==
    LET pos == Operand(v, 2)
    IN  IF pos.err # NoError THEN Fail(v, pos.err)
        ELSE Ok(SetIp(v, pos.value - 1))

\* a JumpNotTruthy that leaves the condition on the stack when it jumps
caseOpJumpNotTruthyKeepsCondition(v) ==
    LET pos == Operand(v, 2)
        r == pop(AddIp(v, 2))
        condition == r.obj
    IN  IF pos.err # NoError THEN Fail(v, pos.err)
        ELSE IF r.err # NoError THEN r
        ELSE IF ~isTruthy(condition) THEN Ok(SetIp(AddIp(v, 2), pos.value - 1))
        ELSE Ok(r.vm)

caseOpJumpNotTruthy(v) ==
    LET pos == Operand(v, 2)
        r == pop(AddIp(v, 2))
        condition == r.obj
    IN  IF pos.err # NoError THEN Fail(v, pos.err)
        ELSE IF r.err # NoError THEN r
        ELSE IF ~isTruthy(condition) THEN Ok(SetIp(r.vm, pos.value - 1))
        ELSE Ok(r.vm)

\* the VM after vm.globals[globalIndex] = vm.pop(); obj is the value stored
caseOpSetGlobal(v) ==
    LET globalIndex == Operand(v, 2)
        r == pop(AddIp(v, 2))
    IN  IF globalIndex.err # NoError THEN Fail(v, globalIndex.err) ELSE r

caseOpGetGlobal(v, g) ==
    LET globalIndex == Operand(v, 2)
    IN  IF globalIndex.err # NoError THEN Fail(v, globalIndex.err)
        ELSE push(AddIp(v, 2), At(g, globalIndex.value))

caseOpArray(v, a) ==
    LET numElements == Operand(v, 2)
        v1 == AddIp(v, 2)
    IN  IF numElements.err # NoError THEN Fail(v, numElements.err)
        ELSE IF numElements.value > 0
                /\ (v.sp - numElements.value < 0 \/ v.sp > StackSize)
        THEN Fail(v1, PanicIndex)
        ELSE push([v1 EXCEPT !.sp = @ - numElements.value],
                  buildArray(v1, v.sp - numElements.value, v.sp, a))

caseOpHash(v, a) ==
    LET numElements == Operand(v, 2)
        v1 == AddIp(v, 2)
        r == buildHash(v1, v.sp - numElements.value, v.sp, a)
    IN  IF numElements.err # NoError THEN Fail(v, numElements.err)
        ELSE IF r.err # NoError THEN r
        ELSE push([v1 EXCEPT !.sp = @ - numElements.value], r.obj)

\* an Index that takes the first pop as the collection
caseOpIndexCollectionFirst(v) ==
    LET r1 == pop(v)
        r2 == pop(r1.vm)
    IN  IF r1.err # NoError THEN r1
        ELSE IF r2.err # NoError THEN r2
        ELSE executeIndexExpression(r2.vm, r1.obj, r2.obj)

caseOpIndex(v) ==
    LET r1 == pop(v)
        left == r1.obj
        r2 == pop(r1.vm)
        index == r2.obj
    IN  IF r1.err # NoError THEN r1
        ELSE IF r2.err # NoError THEN r2
        ELSE executeIndexExpression(r2.vm, index, left)

caseOpCall(v) ==
    LET numArgs == Operand(v, 1)
    IN  IF numArgs.err # NoError THEN Fail(v, numArgs.err)
        ELSE callFunction(AddIp(v, 1), numArgs.value)

\* a ReturnValue that leaves the callee below the returned value
caseOpReturnValueKeepsCallee(v) ==
    LET r1 == pop(v)
        r2 == popFrame(r1.vm)
    IN  IF r1.err # NoError THEN r1
        ELSE IF r2.err # NoError THEN r2
        ELSE push([r2.vm EXCEPT !.sp = r2.obj.basePointer], r1.obj)

caseOpReturnValue(v) ==
    LET r1 == pop(v)
        returnValue == r1.obj
        r2 == popFrame(r1.vm)
        frame == r2.obj
    IN  IF r1.err # NoError THEN r1
        ELSE IF r2.err # NoError THEN r2
        ELSE push([r2.vm EXCEPT !.sp = frame.basePointer - 1], returnValue)

caseOpReturn(v) ==
    LET r == popFrame(v)
        frame == r.obj
    IN  IF r.err # NoError THEN r
        ELSE push([r.vm EXCEPT !.sp = frame.basePointer - 1], Null)

\* a SetLocal that counts the local from the bottom of the stack
caseOpSetLocalFromBottom(v) ==
    LET localIndex == Operand(v, 1)
        v1 == AddIp(v, 1)
        r == pop(v1)
        slot == localIndex.value
    IN  IF localIndex.err # NoError THEN Fail(v, localIndex.err)
        ELSE IF r.err # NoError THEN r
        ELSE Ok([r.vm EXCEPT !.stack = Put(@, slot, r.obj)])

caseOpSetLocal(v) ==
    LET localIndex == Operand(v, 1)
        v1 == AddIp(v, 1)
        frame == currentFrame(v1)
        r == pop(v1)
        slot == frame.basePointer + localIndex.value
    IN  IF localIndex.err # NoError THEN Fail(v, localIndex.err)
        ELSE IF r.err # NoError THEN r
        ELSE IF slot < 0 \/ slot >= StackSize THEN Fail(r.vm, PanicIndex)
        ELSE Ok([r.vm EXCEPT !.stack = Put(@, slot, r.obj)])

caseOpGetLocal(v) ==
    LET localIndex == Operand(v, 1)
        v1 == AddIp(v, 1)
        frame == currentFrame(v1)
        slot == frame.basePointer + localIndex.value
    IN  IF localIndex.err # NoError THEN Fail(v, localIndex.err)
        ELSE IF slot < 0 \/ slot >= StackSize THEN Fail(v1, PanicIndex)
        ELSE push(v1, At(v1.stack, slot))

(***************************************************************************)
(* The inputs of the VM tests (src/vm/vm_test.go) and of a REPL session,   *)
(* as the ASTs parse() makes of them.                                      *)
(***************************************************************************)
ES(e) == ExpressionStatement(e)
Lit(v) == IntegerLiteral(v)
Id(name) == Identifier(name)
Bin(left, op, right) == InfixExpression(left, op, right)
Fn(params, stmts) == FunctionLiteral(params, BlockStatement(stmts))
CallOf(fn, args) == CallExpression(fn, args)
Let(name, value) == LetStatement(name, value)
Pair(key, value) == [Key |-> key, Value |-> value]

\* (5 + 10 * 2 - 15 / 3) * 2 + -10
InArithmetic ==
    <<ES(Bin(Bin(Bin(Bin(Lit(5), "+", Bin(Lit(10), "*", Lit(2))), "-",
                     Bin(Lit(15), "/", Lit(3))), "*", Lit(2)),
             "+", PrefixExpression("-", Lit(10))))>>
\* !(1 < 2) == false; (1 > 2) != true
InBooleans ==
    <<ES(Bin(PrefixExpression("!", Bin(Lit(1), "<", Lit(2))), "==", Boolean(FALSE))),
      ES(Bin(Bin(Lit(1), ">", Lit(2)), "!=", Boolean(TRUE)))>>
\* "mon" + "key"
InStrings == <<ES(Bin(StringLiteral(<<109, 111, 110>>), "+", StringLiteral(<<107, 101, 121>>)))>>
\* [1, 2, 3][1 + 1]
InArrayIndex ==
    <<ES(IndexExpression(ArrayLiteral(<<Lit(1), Lit(2), Lit(3)>>), Bin(Lit(1), "+", Lit(1))))>>
\* {3: 4, 1: 2}[3]
InHashIndex ==
    <<ES(IndexExpression(HashLiteral(<<Pair(Lit(3), Lit(4)), Pair(Lit(1), Lit(2))>>), Lit(3)))>>
\* if (1 > 2) { 10 }
InIfNull ==
    <<ES(IfExpression(Bin(Lit(1), ">", Lit(2)), BlockStatement(<<ES(Lit(10))>>), NoBlock))>>
\* if (1 < 2) { 10 } else { 20 }
InIfElse ==
    <<ES(IfExpression(Bin(Lit(1), "<", Lit(2)), BlockStatement(<<ES(Lit(10))>>),
                      BlockStatement(<<ES(Lit(20))>>)))>>
\* let one = 1; let two = one + one; one + two
InGlobals ==
    <<Let("one", Lit(1)), Let("two", Bin(Id("one"), "+", Id("one"))),
      ES(Bin(Id("one"), "+", Id("two")))>>
\* let noReturn = fn() { }; let noReturnTwo = fn() { noReturn(); }; noReturn(); noReturnTwo();
InNoReturn ==
    <<Let("noReturn", Fn(<<>>, <<>>)),
      Let("noReturnTwo", Fn(<<>>, <<ES(CallOf(Id("noReturn"), <<>>))>>)),
      ES(CallOf(Id("noReturn"), <<>>)), ES(CallOf(Id("noReturnTwo"), <<>>))>>
\* let returnsOneReturner = fn() { let returnsOne = fn() { 1; }; returnsOne; };
\* returnsOneReturner()();
InFirstClass ==
    <<Let("returnsOneReturner",
          Fn(<<>>, <<Let("returnsOne", Fn(<<>>, <<ES(Lit(1))>>)), ES(Id("returnsOne"))>>)),
      ES(CallOf(CallOf(Id("returnsOneReturner"), <<>>), <<>>))>>
\* let globalNum = 10; let sum = fn(a, b) { let c = a + b; c + globalNum; };
\* let outer = fn() { sum(1, 2) + sum(3, 4) + globalNum; }; outer() + globalNum;
InArgumentsAndBindings ==
    <<Let("globalNum", Lit(10)),
      Let("sum", Fn(<<"a", "b">>, <<Let("c", Bin(Id("a"), "+", Id("b"))),
                                    ES(Bin(Id("c"), "+", Id("globalNum")))>>)),
      Let("outer", Fn(<<>>, <<ES(Bin(Bin(CallOf(Id("sum"), <<Lit(1), Lit(2)>>), "+",
                                         CallOf(Id("sum"), <<Lit(3), Lit(4)>>)),
                                     "+", Id("globalNum")))>>)),
      ES(Bin(CallOf(Id("outer"), <<>>), "+", Id("globalNum")))>>
\* fn() { 1; }(1);
InWrongArguments0 == <<ES(CallOf(Fn(<<>>, <<ES(Lit(1))>>), <<Lit(1)>>))>>
\* fn(a) { a; }();
InWrongArguments1 == <<ES(CallOf(Fn(<<"a">>, <<ES(Id("a"))>>), <<>>))>>
\* fn(a, b) { a + b; }(1);
InWrongArguments2 ==
    <<ES(CallOf(Fn(<<"a", "b">>, <<ES(Bin(Id("a"), "+", Id("b")))>>), <<Lit(1)>>))>>
\* let earlyExit = fn() { return 99; 100; }; earlyExit();
InEarlyExit ==
    <<Let("earlyExit", Fn(<<>>, <<ReturnStatement(Lit(99)), ES(Lit(100))>>)),
      ES(CallOf(Id("earlyExit"), <<>>))>>
\* len([1, 2, 3])
InBuiltinLen == <<ES(CallOf(Id("len"), <<ArrayLiteral(<<Lit(1), Lit(2), Lit(3)>>)>>))>>
\* let x = 5; x();
InCallInteger == <<Let("x", Lit(5)), ES(CallOf(Id("x"), <<>>))>>
\* let f = fn(g) { g(g); let a1 = 0; ... let a62 = 0; }; f(f): a recursion
\* without end of a function of 63 locals
InRunaway ==
    <<Let("f", Fn(<<"g">>, <<ES(CallOf(Id("g"), <<Id("g")>>))>>
                           \o [i \in 1..62 |-> Let("a" \o ToString(i), Lit(0))])),
      ES(CallOf(Id("f"), <<Id("f")>>))>>
\* let f = fn() { let a = 1; }; f();
InLetBody ==
    <<Let("f", Fn(<<>>, <<Let("a", Lit(1))>>)), ES(CallOf(Id("f"), <<>>))>>
\* let f = fn(g) { g(g) }; f(f): a recursion without end of a function whose
\* only local is its parameter (a function cannot name itself: the value of a
\* let is compiled before the name is defined)
InFrameOverflow ==
    <<Let("f", Fn(<<"g">>, <<ES(CallOf(Id("g"), <<Id("g")>>))>>)),
      ES(CallOf(Id("f"), <<Id("f")>>))>>
\* "a" + 1
InStringPlusInteger == <<ES(Bin(StringLiteral(<<97>>), "+", Lit(1)))>>
\* 1 + "a"
InIntegerPlusString == <<ES(Bin(Lit(1), "+", StringLiteral(<<97>>)))>>
\* 1 + true
InIntegerPlusBoolean == <<ES(Bin(Lit(1), "+", Boolean(TRUE)))>>
\* true - 1
InBooleanMinusInteger == <<ES(Bin(Boolean(TRUE), "-", Lit(1)))>>
\* 7 / 0
InDivideByZero == <<ES(Bin(Lit(7), "/", Lit(0)))>>
\* -7 / 2 * 3 - 4
InQuotient ==
    <<ES(Bin(Bin(Bin(PrefixExpression("-", Lit(7)), "/", Lit(2)), "*", Lit(3)), "-", Lit(4)))>>

\* the operands of the comparison, prefix and conditional test cases:
\* 1, 2, 1 + 1, -1, true, false, if (false) { 1 } (which is null) and "a"
TestOperands ==
    <<Lit(1), Lit(2), Bin(Lit(1), "+", Lit(1)), PrefixExpression("-", Lit(1)),
      Boolean(TRUE), Boolean(FALSE),
      IfExpression(Boolean(FALSE), BlockStatement(<<ES(Lit(1))>>), NoBlock),
      StringLiteral(<<97>>)>>
ComparisonOperators == <<"<", ">", "==", "!=">>

\* the k-th comparison left op right, over every pair of operands and operator
ComparisonLeft(k) == TestOperands[(((k - 1) \div Len(ComparisonOperators))
                                    \div Len(TestOperands)) + 1]
ComparisonRight(k) == TestOperands[(((k - 1) \div Len(ComparisonOperators))
                                    % Len(TestOperands)) + 1]
ComparisonOperator(k) == ComparisonOperators[((k - 1) % Len(ComparisonOperators)) + 1]
ComparisonInputs ==
    [k \in 1..(Len(TestOperands) * Len(TestOperands) * Len(ComparisonOperators)) |->
        <<ES(Bin(ComparisonLeft(k), ComparisonOperator(k), ComparisonRight(k)))>>]

\* !x for every operand x, then !!x
BangInputs ==
    [k \in 1..Len(TestOperands) |-> <<ES(PrefixExpression("!", TestOperands[k]))>>]
    \o [k \in 1..Len(TestOperands) |->
            <<ES(PrefixExpression("!", PrefixExpression("!", TestOperands[k])))>>]

\* if (x) { 10 } for every operand x, then if (x) { 10 } else { 20 }
ConditionalInputs ==
    [k \in 1..Len(TestOperands) |->
        <<ES(IfExpression(TestOperands[k], BlockStatement(<<ES(Lit(10))>>), NoBlock))>>]
    \o [k \in 1..Len(TestOperands) |->
            <<ES(IfExpression(TestOperands[k], BlockStatement(<<ES(Lit(10))>>),
                              BlockStatement(<<ES(Lit(20))>>)))>>]

\* let s = "a"; s == s
InSameString == <<Let("s", StringLiteral(<<97>>)), ES(Bin(Id("s"), "==", Id("s")))>>

\* let inner = fn(x) { let y = x + 1; y };
\* let outer = fn(a) { let b = a + 10; let c = inner(b); b + c }; outer(1)
InNestedLocals ==
    <<Let("inner", Fn(<<"x">>, <<Let("y", Bin(Id("x"), "+", Lit(1))), ES(Id("y"))>>)),
      Let("outer", Fn(<<"a">>, <<Let("b", Bin(Id("a"), "+", Lit(10))),
                                 Let("c", CallOf(Id("inner"), <<Id("b")>>)),
                                 ES(Bin(Id("b"), "+", Id("c")))>>)),
      ES(CallOf(Id("outer"), <<Lit(1)>>))>>

\* statements that define and use the names a, b, c and f:
\* let a = 1;  let b = a;  b;  c < b;  fn(c) { c + b };  fn() { let c = a; c };
\* let f = fn() { f };  c
NameStatements ==
    <<Let("a", Lit(1)),
      Let("b", Id("a")),
      ES(Id("b")),
      ES(Bin(Id("c"), "<", Id("b"))),
      ES(Fn(<<"c">>, <<ES(Bin(Id("c"), "+", Id("b")))>>)),
      ES(Fn(<<>>, <<Let("c", Id("a")), ES(Id("c"))>>)),
      Let("f", Fn(<<>>, <<ES(Id("f"))>>)),
      ES(Id("c"))>>
\* every program of two of the statements, then every program of let a = 1
\* followed by two of them
NameInputs ==
    [k \in 1..(Len(NameStatements) * Len(NameStatements)) |->
        <<NameStatements[((k - 1) \div Len(NameStatements)) + 1],
          NameStatements[((k - 1) % Len(NameStatements)) + 1]>>]
    \o [k \in 1..(Len(NameStatements) * Len(NameStatements)) |->
        <<NameStatements[1],
          NameStatements[((k - 1) \div Len(NameStatements)) + 1],
          NameStatements[((k - 1) % Len(NameStatements)) + 1]>>]

\* let h = fn(a, b) { {a: 1, b: 2} }; h(3, 4)
InHashOfLocals ==
    <<Let("h", Fn(<<"a", "b">>, <<ES(HashLiteral(<<Pair(Id("a"), Lit(1)),
                                                   Pair(Id("b"), Lit(2))>>))>>)),
      ES(CallOf(Id("h"), <<Lit(3), Lit(4)>>))>>

\* let f = fn(a) { fn() { a } }; f(1)(): the inner function names a local of
\* the outer one
InOuterLocal ==
    <<Let("f", Fn(<<"a">>, <<ES(Fn(<<>>, <<ES(Id("a"))>>))>>)),
      ES(CallOf(CallOf(Id("f"), <<Lit(1)>>), <<>>))>>
\* let f = fn(g) { g(g); let a1 = 0; ... let a63 = 0; }; f(f): the recursion of
\* InRunaway with one local more
InReserveOverflow ==
    <<Let("f", Fn(<<"g">>, <<ES(CallOf(Id("g"), <<Id("g")>>))>>
                           \o [i \in 1..63 |-> Let("a" \o ToString(i), Lit(0))])),
      ES(CallOf(Id("f"), <<Id("f")>>))>>
\* return 1;
InTopLevelReturn == <<ReturnStatement(Lit(1))>>
\* let a = 1; let b = 1; {a: 2, b: 3}[1]; {true: 5, "a": 6}["a"]
InHashSameKey ==
    <<Let("a", Lit(1)), Let("b", Lit(1)),
      ES(IndexExpression(HashLiteral(<<Pair(Id("a"), Lit(2)), Pair(Id("b"), Lit(3))>>),
                         Lit(1))),
      ES(IndexExpression(HashLiteral(<<Pair(Boolean(TRUE), Lit(5)),
                                       Pair(StringLiteral(<<97>>), Lit(6))>>),
                         StringLiteral(<<97>>)))>>
\* {1: 2, [1]: 3}
InHashArrayKey ==
    <<ES(HashLiteral(<<Pair(Lit(1), Lit(2)), Pair(ArrayLiteral(<<Lit(1)>>), Lit(3))>>))>>
\* [1, 2, 3][3]; [1][-1]; [][0]; {1: 2}[2]; {}[true]
InIndexNull ==
    <<ES(IndexExpression(ArrayLiteral(<<Lit(1), Lit(2), Lit(3)>>), Lit(3))),
      ES(IndexExpression(ArrayLiteral(<<Lit(1)>>), PrefixExpression("-", Lit(1)))),
      ES(IndexExpression(ArrayLiteral(<<>>), Lit(0))),
      ES(IndexExpression(HashLiteral(<<Pair(Lit(1), Lit(2))>>), Lit(2))),
      ES(IndexExpression(HashLiteral(<<>>), Boolean(TRUE)))>>
\* {1: 2}[[1]]
InIndexArrayKey ==
    <<ES(IndexExpression(HashLiteral(<<Pair(Lit(1), Lit(2))>>), ArrayLiteral(<<Lit(1)>>)))>>
\* 1[0]
InIndexInteger == <<ES(IndexExpression(Lit(1), Lit(0)))>>
\* [1]["a"]
InIndexArrayString ==
    <<ES(IndexExpression(ArrayLiteral(<<Lit(1)>>), StringLiteral(<<97>>)))>>

\* the test cases written out one by one
WrittenInputs ==
    <<InArithmetic, InBooleans, InStrings, InArrayIndex, InHashIndex, InIfNull,
      InIfElse, InGlobals, InNoReturn, InFirstClass, InArgumentsAndBindings,
      InWrongArguments0, InWrongArguments1, InWrongArguments2, InEarlyExit,
      InBuiltinLen, InCallInteger, InRunaway, InLetBody,
      InStringPlusInteger, InIntegerPlusString, InIntegerPlusBoolean,
      InBooleanMinusInteger, InDivideByZero, InQuotient, InSameString, InNestedLocals,
      InHashOfLocals, InOuterLocal, InReserveOverflow, InTopLevelReturn,
      InHashSameKey, InHashArrayKey, InIndexNull, InIndexArrayKey, InIndexInteger,
      InIndexArrayString>>

\* the test cases runVmTests is given
TestInputs ==
    WrittenInputs \o ComparisonInputs \o BangInputs \o ConditionalInputs \o NameInputs

\* the lines a REPL session is made of:
\* let a = 1;   let b = a + 1;   a + b   let a = 5;   let f = fn(x) { x + a }; f(b)
ReplLines ==
    <<<<Let("a", Lit(1))>>,
      <<Let("b", Bin(Id("a"), "+", Lit(1)))>>,
      <<ES(Bin(Id("a"), "+", Id("b")))>>,
      <<Let("a", Lit(5))>>,
      <<Let("f", Fn(<<"x">>, <<ES(Bin(Id("x"), "+", Id("a")))>>)),
        ES(CallOf(Id("f"), <<Id("b")>>))>>>>

\* the lines one REPL session reads before its input ends
MaxLines == 3

\* a Bytecode built by hand, as a test of the VM alone builds one:
\* Constant 0; Constant 1; Call 1; Pop over the constants len and "four"
BuiltinCallBytecode ==
    [Instructions |-> Make(OpConstant, <<0>>) \o Make(OpConstant, <<1>>)
                      \o Make(OpCall, <<1>>) \o Make(OpPop, <<>>),
     Constants |-> <<Builtin("len"), String(<<102, 111, 117, 114>>, 2)>>]

(***************************************************************************)
(* The drivers: a case of runVmTests (src/vm/vm_test.go, lines 20-37) and  *)
(* repl.Start (src/repl/repl.go, lines 17-64), with Run taken one          *)
(* iteration of its loop at a time.                                        *)
(***************************************************************************)
\* the globals array of repl.Start
ReplGlobals == 1

EmptyBytecode == [Instructions |-> <<>>, Constants |-> <<>>]

\* no call of the instruction encoding made yet
NoCode == [call |-> "none"]

InitVM ==
    /\ codeRet = NoCode
    /\ driver \in {"test", "repl"}
    /\ pc = "prompt"
    /\ inputNo = 0
    /\ vm = New(EmptyBytecode)
    /\ arrays = [g \in {OwnGlobals, ReplGlobals} |-> EmptyArray]
    /\ replConsts = <<>>
    /\ compileErr = NoError
    /\ runErr = NoError
    /\ result = Nil
    /\ allocs = 0
    /\ lines = 0
    /\ callLog = <<>>
    /\ lastSet = EmptyArray

\* the VM variables while only the symbol table is exercised
IdleVM ==
    /\ codeRet = NoCode
    /\ driver = "none"
    /\ pc = "done"
    /\ inputNo = 0
    /\ vm = New(EmptyBytecode)
    /\ arrays = [g \in {OwnGlobals, ReplGlobals} |-> EmptyArray]
    /\ replConsts = <<>>
    /\ compileErr = NoError
    /\ runErr = NoError
    /\ result = Nil
    /\ allocs = 0
    /\ lines = 0
    /\ callLog = <<>>
    /\ lastSet = EmptyArray

\* comp.Compile, New and the entry into Run of the test case of number i
TestProgram(program, i) ==
    /\ driver = "test" /\ pc = "prompt"
    /\ LET comp == CompileProgram(NewCompiler, program)
       IN  /\ tables' = comp.tables
           /\ compileErr' = comp.err
           /\ pc' = IF comp.err = NoError THEN "run" ELSE "done"
           /\ vm' = IF comp.err = NoError THEN New(Bytecode(comp)) ELSE vm
    /\ inputNo' = i
    /\ arrays' = [arrays EXCEPT ![OwnGlobals] = EmptyArray]
    /\ UNCHANGED <<driver, replConsts, runErr, result, allocs, lines, callLog, lastSet>>
    /\ UNCHANGED <<symRet, defineCalls, defLog, symOps, codeRet>>

TestCase(i) == TestProgram(TestInputs[i], i)

\* New and the entry into Run of a test that builds its Bytecode by hand
TestBytecode ==
    /\ driver = "test" /\ pc = "prompt"
    /\ vm' = New(BuiltinCallBytecode)
    /\ pc' = "run"
    /\ inputNo' = -1
    /\ arrays' = [arrays EXCEPT ![OwnGlobals] = EmptyArray]
    /\ UNCHANGED <<driver, replConsts, compileErr, runErr, result, allocs, lines, callLog, lastSet>>
    /\ UNCHANGED <<symVars, codeVars>>

\* one line of the REPL up to the entry into Run
ReplLine(i) ==
    /\ driver = "repl" /\ pc = "prompt" /\ lines < MaxLines
    /\ LET comp == CompileProgram(NewWithState(tables, 1, replConsts), ReplLines[i])
       IN  /\ tables' = comp.tables
           /\ compileErr' = comp.err
           /\ IF comp.err # NoError
              THEN UNCHANGED <<pc, vm, replConsts, arrays>>
              ELSE /\ replConsts' = comp.constants
                   /\ vm' = NewWithGlobalsStore(Bytecode(comp), ReplGlobals)
                   /\ arrays' = [arrays EXCEPT ![OwnGlobals] = EmptyArray]
                   /\ pc' = "run"
    /\ inputNo' = i
    /\ lines' = lines + 1
    /\ runErr' = NoError
    /\ result' = Nil
    /\ callLog' = <<>>
    /\ UNCHANGED <<driver, allocs, lastSet>>
    /\ UNCHANGED <<symRet, defineCalls, defLog, symOps, codeRet>>

\* scanner.Scan() returns false: Start returns
ReplEnd ==
    /\ driver = "repl" /\ pc = "prompt"
    /\ pc' = "done"
    /\ UNCHANGED <<driver, inputNo, vm, arrays, replConsts, compileErr, runErr, result, allocs,
                   lines, callLog, lastSet>>
    /\ UNCHANGED <<symVars, codeVars>>

\* the condition of the loop of Run: "panic" when currentFrame() has no frame
LoopCondition(v) ==
    IF v.framesIndex - 1 < 0 \/ v.framesIndex - 1 >= MaxFrames THEN "panic"
    ELSE IF currentFrame(v).ip < Len(currentFrame(v).fn.Instructions) - 1 THEN "continue"
    ELSE "exit"

\* op of the iteration that starts in VM v
FetchOp(v) == currentFrame(v).fn.Instructions[currentFrame(v).ip + 2]

\* Run is inside its loop and the next instruction has an opcode in ops
AtOp(ops) ==
    /\ pc = "run"
    /\ LoopCondition(vm) = "continue"
    /\ FetchOp(vm) \in ops

\* where the driver is after an iteration that ended with err
PcAfter(err) ==
    IF err = NoError THEN "run"
    ELSE IF IsPanic(err) THEN "crashed"
    ELSE IF driver = "repl" THEN "prompt"
    ELSE "done"

\* the rest of an iteration whose case left the result r and allocated n objects
Iterate(r, n) ==
    /\ vm' = r.vm
    /\ runErr' = r.err
    /\ pc' = PcAfter(r.err)
    /\ allocs' = allocs + n
    /\ UNCHANGED <<driver, inputNo, replConsts, compileErr, result, lines>>
    /\ UNCHANGED <<symVars, codeVars>>

\* the address of the next object the VM allocates
NewAddr == -(allocs + 1)

\* the iterations of the loop of Run, one action for each case of the switch
CaseOpConstant ==
    /\ AtOp({OpConstant})
    /\ Iterate(caseOpConstant(AddIp(vm, 1)), 0)
    /\ UNCHANGED <<arrays, callLog, lastSet>>

CaseBinaryOperation ==
    /\ AtOp({OpAdd, OpSub, OpDiv, OpMul})
    /\ Iterate(executeBinaryOperation(AddIp(vm, 1), FetchOp(vm), NewAddr), 1)
    /\ UNCHANGED <<arrays, callLog, lastSet>>

CaseOpPop ==
    /\ AtOp({OpPop})
    /\ Iterate(caseOpPop(AddIp(vm, 1)), 0)
    /\ UNCHANGED <<arrays, callLog, lastSet>>

CaseOpTrue ==
    /\ AtOp({OpTrue})
    /\ Iterate(push(AddIp(vm, 1), True), 0)
    /\ UNCHANGED <<arrays, callLog, lastSet>>

CaseOpFalse ==
    /\ AtOp({OpFalse})
    /\ Iterate(push(AddIp(vm, 1), False), 0)
    /\ UNCHANGED <<arrays, callLog, lastSet>>

CaseComparison ==
    /\ AtOp({OpEqual, OpNotEqual, OpGreaterThan})
    /\ Iterate(executeComparison(AddIp(vm, 1), FetchOp(vm)), 0)
    /\ UNCHANGED <<arrays, callLog, lastSet>>

CaseOpBang ==
    /\ AtOp({OpBang})
    /\ Iterate(executeBangOperator(AddIp(vm, 1)), 0)
    /\ UNCHANGED <<arrays, callLog, lastSet>>

CaseOpMinus ==
    /\ AtOp({OpMinus})
    /\ Iterate(executeMinusOperator(AddIp(vm, 1), NewAddr), 1)
    /\ UNCHANGED <<arrays, callLog, lastSet>>

CaseOpJump ==
    /\ AtOp({OpJump})
    /\ Iterate(caseOpJump(AddIp(vm, 1)), 0)
    /\ UNCHANGED <<arrays, callLog, lastSet>>

CaseOpJumpNotTruthy ==
    /\ AtOp({OpJumpNotTruthy})
    /\ Iterate(caseOpJumpNotTruthy(AddIp(vm, 1)), 0)
    /\ UNCHANGED <<arrays, callLog, lastSet>>

CaseOpNull ==
    /\ AtOp({OpNull})
    /\ Iterate(push(AddIp(vm, 1), Null), 0)
    /\ UNCHANGED <<arrays, callLog, lastSet>>

CaseOpSetGlobal ==
    /\ AtOp({OpSetGlobal})
    /\ LET r == caseOpSetGlobal(AddIp(vm, 1))
           globalIndex == Operand(AddIp(vm, 1), 2).value
       IN  /\ Iterate(r, 0)
           /\ arrays' = IF r.err # NoError THEN arrays
                        ELSE [arrays EXCEPT ![vm.globals] = Put(@, globalIndex, r.obj)]
           /\ lastSet' = IF r.err # NoError THEN lastSet
                         ELSE Put(lastSet, globalIndex, r.obj)
    /\ UNCHANGED callLog

CaseOpGetGlobal ==
    /\ AtOp({OpGetGlobal})
    /\ Iterate(caseOpGetGlobal(AddIp(vm, 1), arrays[vm.globals]), 0)
    /\ UNCHANGED <<arrays, callLog, lastSet>>

CaseOpArray ==
    /\ AtOp({OpArray})
    /\ Iterate(caseOpArray(AddIp(vm, 1), NewAddr), 1)
    /\ UNCHANGED <<arrays, callLog, lastSet>>

CaseOpHash ==
    /\ AtOp({OpHash})
    /\ Iterate(caseOpHash(AddIp(vm, 1), NewAddr), 1)
    /\ UNCHANGED <<arrays, callLog, lastSet>>

CaseOpIndex ==
    /\ AtOp({OpIndex})
    /\ Iterate(caseOpIndex(AddIp(vm, 1)), 0)
    /\ UNCHANGED <<arrays, callLog, lastSet>>

\* the entry of callLog for the Call about to run in VM v: the slot of the
\* callee, the frame that calls and the ip it has once the operand is read
CallEntry(v) ==
    [slot |-> v.sp - 1 - Operand(AddIp(v, 1), 1).value,
     caller |-> v.framesIndex - 1,
     ip |-> currentFrame(v).ip + 2]

CaseOpCall ==
    /\ AtOp({OpCall})
    /\ LET r == caseOpCall(AddIp(vm, 1))
       IN  /\ Iterate(r, 0)
           /\ callLog' = IF r.err = NoError THEN Append(callLog, CallEntry(vm))
                         ELSE callLog
    /\ UNCHANGED <<arrays, lastSet>>

CaseOpReturnValue ==
    /\ AtOp({OpReturnValue})
    /\ Iterate(caseOpReturnValue(AddIp(vm, 1)), 0)
    /\ callLog' = IF Len(callLog) = 0 THEN callLog ELSE SubSeq(callLog, 1, Len(callLog) - 1)
    /\ UNCHANGED <<arrays, lastSet>>

CaseOpReturn ==
    /\ AtOp({OpReturn})
    /\ Iterate(caseOpReturn(AddIp(vm, 1)), 0)
    /\ callLog' = IF Len(callLog) = 0 THEN callLog ELSE SubSeq(callLog, 1, Len(callLog) - 1)
    /\ UNCHANGED <<arrays, lastSet>>

CaseOpSetLocal ==
    /\ AtOp({OpSetLocal})
    /\ Iterate(caseOpSetLocal(AddIp(vm, 1)), 0)
    /\ UNCHANGED <<arrays, callLog, lastSet>>

CaseOpGetLocal ==
    /\ AtOp({OpGetLocal})
    /\ Iterate(caseOpGetLocal(AddIp(vm, 1)), 0)
    /\ UNCHANGED <<arrays, callLog, lastSet>>

\* the opcodes the switch of Run has a case for
CasesOfRun ==
    {OpConstant, OpAdd, OpSub, OpDiv, OpMul, OpPop, OpTrue, OpFalse, OpEqual,
     OpNotEqual, OpGreaterThan, OpBang, OpMinus, OpJump, OpJumpNotTruthy, OpNull,
     OpSetGlobal, OpGetGlobal, OpArray, OpHash, OpIndex, OpCall, OpReturnValue,
     OpReturn, OpSetLocal, OpGetLocal}

\* an opcode without a case: the switch has no default, the loop goes on
NoCase ==
    /\ AtOp(0..255 \ CasesOfRun)
    /\ Iterate(Ok(AddIp(vm, 1)), 0)
    /\ UNCHANGED <<arrays, callLog, lastSet>>

\* the loop ends: Run returns nil (or panics in currentFrame), and the driver
\* asks for LastPoppedStackElement(); the REPL calls Inspect() on it
RunReturns ==
    /\ pc = "run"
    /\ LoopCondition(vm) # "continue"
    /\ LET panic == IF LoopCondition(vm) = "panic" \/ vm.sp < 0 \/ vm.sp >= StackSize
                    THEN PanicIndex
                    ELSE IF driver = "repl" /\ IsNil(LastPoppedStackElement(vm))
                    THEN PanicNil
                    ELSE NoError
       IN  /\ runErr' = IF LoopCondition(vm) = "panic" THEN PanicIndex ELSE NoError
           /\ result' = IF LoopCondition(vm) = "panic" \/ vm.sp < 0 \/ vm.sp >= StackSize
                        THEN Nil ELSE LastPoppedStackElement(vm)
           /\ pc' = IF panic # NoError THEN "crashed"
                    ELSE IF driver = "repl" THEN "prompt" ELSE "done"
    /\ UNCHANGED <<driver, inputNo, vm, arrays, replConsts, compileErr, allocs, lines,
                   callLog, lastSet>>
    /\ UNCHANGED <<symVars, codeVars>>

Next ==
    \/ \E i \in 1..Len(TestInputs) : TestCase(i)
    \/ TestBytecode
    \/ \E i \in 1..Len(ReplLines) : ReplLine(i)
    \/ ReplEnd
    \/ CaseOpConstant
    \/ CaseBinaryOperation
    \/ CaseOpPop
    \/ CaseOpTrue
    \/ CaseOpFalse
    \/ CaseComparison
    \/ CaseOpBang
    \/ CaseOpMinus
    \/ CaseOpJump
    \/ CaseOpJumpNotTruthy
    \/ CaseOpNull
    \/ CaseOpSetGlobal
    \/ CaseOpGetGlobal
    \/ CaseOpArray
    \/ CaseOpHash
    \/ CaseOpIndex
    \/ CaseOpCall
    \/ CaseOpReturnValue
    \/ CaseOpReturn
    \/ CaseOpSetLocal
    \/ CaseOpGetLocal
    \/ NoCase
    \/ RunReturns

Init ==
    /\ InitVM
    /\ tables = <<NewSymbolTable>>
    /\ symRet = [op |-> "none", table |-> NilTable, name |-> "", index |-> 0,
                 symbol |-> ZeroSymbol, ok |-> FALSE]
    /\ defineCalls = <<0>>
    /\ defLog = <<EmptyStore>>
    /\ symOps = 0

Spec == Init /\ [][Next]_vars

(***************************************************************************)
(* The test driver on the one program InFrameOverflow, whose run takes     *)
(* more than 3000 iterations of Run: the iterations are those of Spec.     *)
(***************************************************************************)
InitFrames == Init /\ driver = "test"

FrameOverflowCase == TestProgram(InFrameOverflow, 0)

NextFrames ==
    \/ FrameOverflowCase
    \/ CaseOpConstant
    \/ CaseOpSetGlobal
    \/ CaseOpGetGlobal
    \/ CaseOpCall
    \/ CaseOpGetLocal

SpecFrames == InitFrames /\ [][NextFrames]_vars

(***************************************************************************)
(* The symbol-table harness: any interleaving of NewEnclosedSymbolTable,   *)
(* Define, DefineBuiltin and Resolve on the tables allocated so far, as    *)
(* the symbol-table tests drive them.                                      *)
(***************************************************************************)
NoCall ==
    [op |-> "none", table |-> NilTable, name |-> "", index |-> 0,
     symbol |-> ZeroSymbol, ok |-> FALSE]

InitSym ==
    /\ tables = <<NewSymbolTable>>
    /\ symRet = NoCall
    /\ defineCalls = <<0>>
    /\ defLog = <<EmptyStore>>
    /\ symOps = 0
    /\ IdleVM

SymNewEnclosed(outer) ==
    /\ UNCHANGED <<vmVars, codeVars>>
    /\ symOps < MaxSymOps
    /\ Len(tables) < MaxTables
    /\ tables' = Append(tables, NewEnclosedSymbolTable(outer))
    /\ defineCalls' = Append(defineCalls, 0)
    /\ defLog' = Append(defLog, EmptyStore)
    /\ symRet' = [op |-> "NewEnclosedSymbolTable", table |-> Len(tables) + 1,
                  name |-> "", index |-> 0, symbol |-> ZeroSymbol, ok |-> TRUE]
    /\ symOps' = symOps + 1

SymDefine(st, name) ==
    /\ UNCHANGED <<vmVars, codeVars>>
    /\ symOps < MaxSymOps
    /\ LET r == Define(tables, st, name)
       IN  /\ tables' = r.tables
           /\ symRet' = [op |-> "Define", table |-> st, name |-> name, index |-> 0,
                         symbol |-> r.symbol, ok |-> TRUE]
           /\ defLog' = [defLog EXCEPT ![st] = StorePut(@, name, r.symbol)]
    /\ defineCalls' = [defineCalls EXCEPT ![st] = @ + 1]
    /\ symOps' = symOps + 1

SymDefineBuiltin(s, index, name) ==
    /\ UNCHANGED <<vmVars, codeVars>>
    /\ symOps < MaxSymOps
    /\ LET r == DefineBuiltin(tables, s, index, name)
       IN  /\ tables' = r.tables
           /\ symRet' = [op |-> "DefineBuiltin", table |-> s, name |-> name,
                         index |-> index, symbol |-> r.symbol, ok |-> TRUE]
           /\ defLog' = [defLog EXCEPT ![s] = StorePut(@, name, r.symbol)]
    /\ UNCHANGED defineCalls
    /\ symOps' = symOps + 1

SymResolve(st, name) ==
    /\ UNCHANGED <<vmVars, codeVars>>
    /\ LET r == Resolve(tables, st, name)
       IN  symRet' = [op |-> "Resolve", table |-> st, name |-> name, index |-> 0,
                      symbol |-> r.symbol, ok |-> r.ok]
    /\ UNCHANGED <<tables, defineCalls, defLog, symOps>>

NextSym ==
    \/ \E outer \in 1..Len(tables) : SymNewEnclosed(outer)
    \/ \E st \in 1..Len(tables), name \in SymNames : SymDefine(st, name)
    \/ \E s \in 1..Len(tables), index \in 0..MaxBuiltinIndex, name \in SymNames :
          SymDefineBuiltin(s, index, name)
    \/ \E st \in 1..Len(tables), name \in SymNames : SymResolve(st, name)

SpecSym == InitSym /\ [][NextSym]_vars

(***************************************************************************)
(* The tests of the instruction encoding (src/code/code_test.go): Make of  *)
(* an opcode and operands followed by Lookup and ReadOperands on the bytes *)
(* after the opcode, as TestReadOperands does, and the decoding loop of    *)
(* Instructions.String() on the instructions the compiler makes.           *)
(***************************************************************************)
\* the opcodes the tests try: those with a definition and the next two
MaxOpcode == 28

\* the streams tried per program, and the longest stream decoded
MaxStreams == 3
MaxStreamLen == 64

\* the longest byte sequence String() is called on, and the lines of output
\* after which the model leaves a call of String() alone
MaxStringLen == 3
MaxOutLines == 4

\* the operand values tried for an operand of the given width
OperandValues(width) ==
    IF width = 2 THEN {0, 1, 255, 256, 258, 4660, 65280, 65534, 65535}
    ELSE {0, 1, 127, 128, 255}

\* the operand lists that fit the widths: one value of its width per operand
OperandLists(widths) ==
    IF Len(widths) = 0 THEN {<<>>}
    ELSE {<<o>> : o \in OperandValues(widths[1])}

\* each behaviour is one call of a test: nothing has been called yet
InitCode ==
    /\ tables = <<NewSymbolTable>>
    /\ symRet = NoCall
    /\ defineCalls = <<0>>
    /\ defLog = <<EmptyStore>>
    /\ symOps = 0
    /\ IdleVM

\* instructions := Make(op, operands...); def, err := Lookup(byte(op));
\* operandsRead, n := ReadOperands(def, instructions[1:])
CodeMake(op, operands) ==
    /\ codeRet.call = "none"
    /\ LET instructions == Make(op, operands)
           def == Lookup(op)
           r == ReadOperands(def, Tail(instructions))
       IN  codeRet' = IF def.err # "nil"
                      THEN [call |-> "Make", op |-> op, operands |-> operands,
                            instructions |-> instructions, err |-> def.err,
                            operandsRead |-> <<>>, n |-> 0]
                      ELSE [call |-> "Make", op |-> op, operands |-> operands,
                            instructions |-> instructions, err |-> r.err,
                            operandsRead |-> r.operands, n |-> r.read]
    /\ UNCHANGED <<symVars, vmVars>>

\* the instruction streams of a compiled program: the main one (k = 0) and the
\* one of each CompiledFunction among its constants
Streams(bytecode) ==
    <<bytecode.Instructions>>
    \o SelectSeq([k \in 1..Len(bytecode.Constants) |->
                    IF bytecode.Constants[k].kind = COMPILED_FUNCTION_OBJECT
                    THEN bytecode.Constants[k].Instructions ELSE <<>>],
                 LAMBDA ins : Len(ins) > 0)

\* the decoding loop of String() on stream k of the compiled test input i,
\* and Make of what it decoded
CodeString(i, k) ==
    /\ codeRet.call = "none"
    /\ LET comp == CompileProgram(NewCompiler, TestInputs[i])
           streams == Streams(Bytecode(comp))
       IN  /\ comp.err = "nil"
           /\ k \in 1..Len(streams)
           /\ Len(streams[k]) <= MaxStreamLen
           /\ LET d == Decode(streams[k], 0)
              IN  codeRet' = [call |-> "String", input |-> i, ins |-> streams[k],
                              err |-> d.err, decoded |-> d.pairs]
    /\ UNCHANGED <<symVars, vmVars>>

\* the bytes of the sequences String() is called on: two opcodes with a
\* definition, one with a two-byte operand and one without operand, and a byte
\* that is no opcode
StringBytes == {OpConstant, OpAdd, 255}
RECURSIVE ByteSequences(_)
ByteSequences(n) ==
    IF n = 0 THEN {<<>>}
    ELSE ByteSequences(n - 1)
            \cup {Append(q, b) : q \in {r \in ByteSequences(n - 1) : Len(r) = n - 1},
                                 b \in StringBytes}

\* ins.String() is called: i := 0 and the buffer out is empty
StringBegin(ins) ==
    /\ codeRet.call = "none"
    /\ codeRet' = [call |-> "StringLoop", ins |-> ins, i |-> 0, lines |-> 0, err |-> "nil"]
    /\ UNCHANGED <<symVars, vmVars>>

\* one iteration of the loop of String(): a line of output is written; after
\* an error of Lookup the loop continues with i as it is
StringIterate ==
    /\ codeRet.call = "StringLoop"
    /\ codeRet.i < Len(codeRet.ins)
    /\ codeRet.lines < MaxOutLines
    /\ LET def == Lookup(codeRet.ins[codeRet.i + 1])
           r == ReadOperands(def, SliceFrom(codeRet.ins, codeRet.i + 1))
       IN  codeRet' = IF def.err # "nil"
                      THEN [codeRet EXCEPT !.lines = @ + 1]
                      ELSE IF r.err # "nil"
                      THEN [codeRet EXCEPT !.call = "StringPanic", !.err = r.err]
                      ELSE [codeRet EXCEPT !.lines = @ + 1, !.i = @ + 1 + r.read]
    /\ UNCHANGED <<symVars, vmVars>>

\* the condition i < len(ins) of the loop fails: String() returns out.String()
StringReturns ==
    /\ codeRet.call = "StringLoop"
    /\ codeRet.i >= Len(codeRet.ins)
    /\ codeRet' = [codeRet EXCEPT !.call = "StringReturned"]
    /\ UNCHANGED <<symVars, vmVars>>

NextCode ==
    \/ \E op \in 0..MaxOpcode : \E operands \in OperandLists(OperandWidths(op)) :
            CodeMake(op, operands)
    \/ \E i \in 1..Len(TestInputs) : \E k \in 1..MaxStreams : CodeString(i, k)
    \/ \E ins \in ByteSequences(MaxStringLen) : StringBegin(ins)
    \/ StringIterate
    \/ StringReturns

SpecCode == InitCode /\ [][NextCode]_vars

(***************************************************************************)
(* Claims about the symbol table, checked under SpecSym.                   *)
(***************************************************************************)
\* the tables from st outward along the Outer links, st first
RECURSIVE ScopeChain(_)
ScopeChain(st) ==
    IF st = NilTable THEN <<>> ELSE <<st>> \o ScopeChain(tables[st].Outer)

\* the positions of ScopeChain(st) whose table has had name defined on it
DefinedAt(st, name) ==
    {i \in 1..Len(ScopeChain(st)) : name \in DOMAIN defLog[ScopeChain(st)[i]]}

\* the nearest table of the chain of st on which name was defined
Nearest(st, name) ==
    ScopeChain(st)[CHOOSE i \in DefinedAt(st, name) :
                      \A j \in DefinedAt(st, name) : i <= j]

\* C6: the k-th Define call on a table (counting from 0) returns a symbol
\* with index k and leaves numDefinitions = k+1; the symbol is Global iff
\* the table is the one without an outer table, else Local; every table
\* counts its own definitions from 0, whatever its outer tables hold.
C6_DefineIndexIsCallCount ==
    /\ \A t \in 1..Len(tables) : tables[t].numDefinitions = defineCalls[t]
    /\ symRet.op = "Define" =>
          /\ symRet.symbol.Name = symRet.name
          /\ symRet.symbol.Index = defineCalls[symRet.table] - 1
          /\ symRet.symbol.Scope = GlobalScope <=> symRet.table = 1
          /\ symRet.symbol.Scope = LocalScope <=> symRet.table # 1

\* C6 witness: the first Define on an enclosed table returns Local index 0
\* although its outer table already holds two definitions.
C6_Witness ==
    /\ symRet.op = "Define"
    /\ symRet.table = 2
    /\ symRet.symbol = [Name |-> symRet.name, Scope |-> LocalScope, Index |-> 0]
    /\ defineCalls[1] = 2

\* C7: Resolve(name) on a table returns the symbol that the nearest table
\* on its chain of outer links defining name was given by its last
\* Define/DefineBuiltin of name (scope and index unchanged), and reports
\* not-found exactly when no table on the chain defines name.
C7_ResolveNearestDefinition ==
    /\ \A st \in 1..Len(tables), name \in SymNames :
          LET r == Resolve(tables, st, name)
          IN  IF DefinedAt(st, name) # {}
              THEN r.ok /\ r.symbol = defLog[Nearest(st, name)][name]
              ELSE ~r.ok
    /\ symRet.op = "Resolve" =>
          IF DefinedAt(symRet.table, symRet.name) # {}
          THEN /\ symRet.ok
               /\ symRet.symbol = defLog[Nearest(symRet.table, symRet.name)][symRet.name]
          ELSE ~symRet.ok

\* C7 witness: a name defined both on an enclosed table and on its outer
\* table resolves, from the enclosed table, to the inner Local symbol.
C7_Witness ==
    /\ symRet.op = "Resolve"
    /\ symRet.table = 2
    /\ symRet.name \in DOMAIN defLog[1] \cap DOMAIN defLog[2]
    /\ defLog[1][symRet.name].Scope = GlobalScope
    /\ symRet.ok
    /\ symRet.symbol.Scope = LocalScope

CallArgs == Operand(AddIp(vm, 1), 1).value
\* the object at stack[sp-1-numArgs] when the next iteration executes Call
Callee == At(vm.stack, vm.sp - 1 - CallArgs)
\* the frames below index n are the same in both VMs but for the ip of frame n-1
FramesKept(v, w, n) ==
    \A k \in 0..(n - 1) :
        /\ k \in DOMAIN v.frames /\ k \in DOMAIN w.frames
        /\ w.frames[k].fn = v.frames[k].fn
        /\ w.frames[k].basePointer = v.frames[k].basePointer
        /\ k < n - 1 => w.frames[k].ip = v.frames[k].ip
\* slots from..to hold the same objects in both VMs
SlotsKept(v, w, from, to) ==
    \A i \in from..to : SameObject(At(w.stack, i), At(v.stack, i))
\* every slot written holds the same object in both VMs
StackKept(v, w) ==
    /\ DOMAIN w.stack = DOMAIN v.stack
    /\ \A i \in DOMAIN v.stack : SameObject(w.stack[i], v.stack[i])

Returned == IF FetchOp(vm) = OpReturn THEN Null ELSE At(vm.stack, vm.sp - 1)

\* C2: a ReturnValue or Return executed in a frame pushed by Call pops exactly
\* that frame (the last one pushed and not yet popped), leaves sp one above the
\* slot the callee was pushed to, with the returned value (Null for Return) on
\* top, and the caller goes on right after its Call instruction; the frames
\* pushed and not popped are exactly those above the main frame.
C2_ReturnMatchesCall ==
    [][/\ (pc = "run" => Len(callLog) = vm.framesIndex - 1)
       /\ (AtOp({OpReturnValue, OpReturn}) /\ Len(callLog) > 0)
          => LET call == callLog[Len(callLog)]
             IN  /\ pc' = "run" /\ runErr' = NoError
                 /\ call.caller = vm.framesIndex - 2
                 /\ currentFrame(vm).basePointer - 1 = call.slot
                 /\ vm'.framesIndex = vm.framesIndex - 1
                 /\ vm'.sp = call.slot + 1
                 /\ SameObject(At(vm'.stack, vm'.sp - 1), Returned)
                 /\ currentFrame(vm').ip = call.ip
                 /\ currentFrame(vm').fn.Instructions[call.ip] = OpCall
                 /\ FramesKept(vm, vm', vm'.framesIndex + 1)
                 /\ SlotsKept(vm, vm', 0, call.slot - 1)]_vars

\* a function called from another function has just returned the Integer 13
\* to its caller, which is about to continue after its Call
C2_Witness ==
    /\ pc = "run" /\ vm.framesIndex = 2 /\ Len(callLog) = 1
    /\ currentFrame(vm).ip >= 1
    /\ currentFrame(vm).fn.Instructions[currentFrame(vm).ip] = OpCall
    /\ vm.sp = currentFrame(vm).basePointer + 1
    /\ At(vm.stack, vm.sp - 1).kind = INTEGER_OBJ
    /\ At(vm.stack, vm.sp - 1).Value = 13

\* the error of callFunction for a function of P parameters called with N arguments
WrongNumber(P, N) ==
    "wrong number of arguments: want=" \o ToString(P) \o ", got=" \o ToString(N)

\* C3: when Call(N) executes with a CompiledFunction of P # N parameters at
\* stack[sp-1-N], Run returns "wrong number of arguments: want=P, got=N" at
\* that instruction: no iteration follows, no frame is pushed, framesIndex, sp
\* and the stack are as before.
C3_WrongArgumentCount ==
    [][(/\ AtOp({OpCall})
        /\ vm.sp - 1 - CallArgs \in 0..(StackSize - 1)
        /\ Callee.kind = COMPILED_FUNCTION_OBJECT
        /\ Callee.NumParameters # CallArgs)
       => (/\ runErr' = WrongNumber(Callee.NumParameters, CallArgs)
           /\ pc' # "run" /\ pc' # "crashed"
           /\ vm'.framesIndex = vm.framesIndex
           /\ vm'.sp = vm.sp
           /\ FramesKept(vm, vm', vm.framesIndex)
           /\ vm'.frames = [vm.frames EXCEPT ![vm.framesIndex - 1].ip = @ + 2]
           /\ StackKept(vm, vm'))]_vars

\* Run has returned the error for fn(a, b) { a + b; }(1)
C3_Witness ==
    /\ pc = "done" /\ inputNo = 14
    /\ runErr = "wrong number of arguments: want=2, got=1"
    /\ vm.framesIndex = 1 /\ vm.sp = 2
    /\ At(vm.stack, 0).kind = COMPILED_FUNCTION_OBJECT
    /\ At(vm.stack, 0).NumParameters = 2

\* the value of the operand of width w of the instruction about to execute
NextOperand(w) == Operand(AddIp(vm, 1), w)

\* the next iteration executes a case that pushes onto the stack as it is
PushesNow ==
    \/ AtOp({OpTrue, OpFalse, OpNull})
    \/ AtOp({OpConstant}) /\ NextOperand(2).err = NoError
                          /\ NextOperand(2).value < Len(vm.constants)
    \/ AtOp({OpGetGlobal}) /\ NextOperand(2).err = NoError
    \/ AtOp({OpGetLocal}) /\ NextOperand(1).err = NoError
                          /\ currentFrame(vm).basePointer + NextOperand(1).value
                                \in 0..(StackSize - 1)
    \/ AtOp({OpArray, OpHash}) /\ NextOperand(2).err = NoError
                               /\ NextOperand(2).value = 0

\* C4 (as the spec states it): after Run returns without error for a compiled
\* program, sp is 0.
C4_StackEmptyAfterRun ==
    (driver = "test" /\ inputNo >= 1 /\ pc = "done"
        /\ compileErr = NoError /\ runErr = NoError)
    => vm.sp = 0

\* C5: GetGlobal(ix) pushes the value the last SetGlobal(ix) stored in the
\* globals array, in the same run or in an earlier VM of the REPL; SetGlobal(ix)
\* pops one value, stores it at ix and leaves every other index and the stack
\* as they are; and a line of the REPL that does not define a global again
\* leaves that global its index.
LetsGlobal(program, name) ==
    \E k \in 1..Len(program) :
        program[k].node = "LetStatement" /\ program[k].Name = name

GlobalNames == {n \in DOMAIN tables[1].store : tables[1].store[n].Scope = GlobalScope}

C5_GlobalsPersist ==
    [][/\ (AtOp({OpGetGlobal}) /\ NextOperand(2).err = NoError /\ vm.sp \in 0..(StackSize - 1))
          => (/\ pc' = "run" /\ runErr' = NoError
              /\ vm'.sp = vm.sp + 1
              /\ SameObject(At(vm'.stack, vm.sp), At(lastSet, NextOperand(2).value))
              /\ SlotsKept(vm, vm', 0, vm.sp - 1)
              /\ arrays' = arrays)
       /\ (AtOp({OpSetGlobal}) /\ NextOperand(2).err = NoError /\ vm.sp \in 1..StackSize)
          => (/\ pc' = "run" /\ runErr' = NoError
              /\ vm'.sp = vm.sp - 1
              /\ StackKept(vm, vm')
              /\ SameObject(At(arrays'[vm.globals], NextOperand(2).value),
                            At(vm.stack, vm.sp - 1))
              /\ \A g \in DOMAIN arrays : \A j \in DOMAIN arrays[g] \cup DOMAIN arrays'[g] :
                    (g # vm.globals \/ j # NextOperand(2).value)
                    => SameObject(At(arrays'[g], j), At(arrays[g], j)))
       /\ (driver = "repl" /\ pc = "prompt" /\ pc' # "done")
          => \A n \in GlobalNames :
                ~LetsGlobal(ReplLines[inputNo'], n)
                => (/\ n \in DOMAIN tables'[1].store
                    /\ tables'[1].store[n] = tables[1].store[n])]_vars

\* the second line of a REPL session, let b = a + 1, has just pushed the
\* value the first line stored in global 0
C5_Witness ==
    /\ driver = "repl" /\ lines = 2 /\ inputNo = 2 /\ pc = "run"
    /\ currentFrame(vm).ip = 2 /\ vm.sp = 1
    /\ vm.globals = ReplGlobals
    /\ At(lastSet, 0).kind = INTEGER_OBJ
    /\ SameObject(At(vm.stack, 0), At(lastSet, 0))
    /\ tables[1].store["a"].Index = 0

\* C5 (as the spec states it): a global keeps its index in every later
\* compilation of the REPL.
C5_IndexNeverChanges ==
    [][(driver = "repl" /\ pc = "prompt" /\ pc' # "done")
       => \A n \in GlobalNames :
             /\ n \in DOMAIN tables'[1].store
             /\ tables'[1].store[n].Index = tables[1].store[n].Index]_vars

\* C9 (as the spec states it): Call(N) with a Builtin at stack[sp-1-N] goes on
\* without error, pushes no frame and leaves the builtin's value in the place
\* of the callee.
C9_BuiltinCall ==
    [][(/\ AtOp({OpCall})
        /\ vm.sp - 1 - CallArgs \in 0..(StackSize - 1)
        /\ Callee.kind = Builtin_OBJ)
       => (/\ runErr' = NoError /\ pc' = "run"
           /\ vm'.framesIndex = vm.framesIndex
           /\ vm'.sp = vm.sp - CallArgs)]_vars

\* C10: a push at sp = StackSize makes Run return "stack overflow" at that
\* instruction, with sp and every stack slot as they were.
C10_StackOverflow ==
    [][/\ (vm.sp = StackSize
           => push(vm, Null).err = "stack overflow" /\ push(vm, Null).vm = vm)
       /\ (PushesNow /\ vm.sp = StackSize)
          => (/\ runErr' = "stack overflow"
              /\ pc' # "run" /\ pc' # "crashed"
              /\ vm'.sp = vm.sp
              /\ StackKept(vm, vm'))]_vars

\* the runaway recursion has ended with the error at its first push with sp = 2048
C10_Witness ==
    /\ pc = "done" /\ inputNo = 18
    /\ runErr = "stack overflow"
    /\ vm.sp = StackSize
    /\ vm.framesIndex = 33
    /\ currentFrame(vm).fn.NumLocals = 63
    /\ StackSize \notin DOMAIN vm.stack

(***************************************************************************)
(* Claims about the instruction encoding, checked under SpecCode.          *)
(***************************************************************************)
\* the bytes of the value o at the given width, most significant byte first
BigEndian(o, width) == [k \in 1..width |-> (o \div (256 ^ (width - k))) % 256]

\* the operand bytes of an instruction: each operand at its width, in order
RECURSIVE OperandBytes(_, _, _)
OperandBytes(widths, operands, i) ==
    IF i > Len(widths) THEN <<>>
    ELSE BigEndian(operands[i], widths[i]) \o OperandBytes(widths, operands, i + 1)

\* Make of each decoded instruction, concatenated
RECURSIVE MakeAll(_, _)
MakeAll(pairs, i) ==
    IF i > Len(pairs) THEN <<>>
    ELSE Make(pairs[i].op, pairs[i].operands) \o MakeAll(pairs, i + 1)

\* C19: for a defined opcode and operands that fit its widths, Make gives the
\* opcode byte followed by each operand big-endian at its width, and
\* ReadOperands on the bytes after the opcode gives the operands back with the
\* number of operand bytes; decoding a compiled instruction stream and encoding
\* what was decoded with Make gives the stream back byte for byte.
C19_MakeReadRoundTrip ==
    /\ (codeRet.call = "Make" /\ Defined(codeRet.op))
       => /\ codeRet.instructions
                = <<codeRet.op>> \o OperandBytes(OperandWidths(codeRet.op), codeRet.operands, 1)
          /\ codeRet.err = "nil"
          /\ codeRet.operandsRead = codeRet.operands
          /\ codeRet.n = Len(codeRet.instructions) - 1
    /\ codeRet.call = "String"
       => /\ codeRet.err = "nil"
          /\ MakeAll(codeRet.decoded, 1) = codeRet.ins

\* Make(OpConstant, 65534) gave 0, 255, 254 and ReadOperands read 65534 in 2 bytes
C19_Witness ==
    /\ codeRet.call = "Make" /\ codeRet.op = OpConstant
    /\ codeRet.operands = <<65534>>
    /\ codeRet.instructions = <<0, 255, 254>>
    /\ codeRet.operandsRead = <<65534>> /\ codeRet.n = 2

(***************************************************************************)
(* Claims about the limits and the operators of the virtual machine,       *)
(* checked under Spec.                                                     *)
(***************************************************************************)
\* C11 (as the spec states it): a Call made when every frame of the frames
\* array is in use returns the error "frame overflow".  The Call is the one the
\* VM is about to execute on a function of the right arity; the VM it is stated
\* of is that VM with framesIndex at MaxFrames, as the recursion
\* let f = fn(g) { g(g) }; f(f) leaves it after 1023 calls.
C11_FrameOverflow ==
    (/\ AtOp({OpCall})
     /\ vm.sp - 1 - CallArgs \in 0..(StackSize - 1)
     /\ Callee.kind = COMPILED_FUNCTION_OBJECT
     /\ Callee.NumParameters = CallArgs)
    => callFunction([vm EXCEPT !.framesIndex = MaxFrames], CallArgs).err = "frame overflow"

\* how the run of InFrameOverflow ends under SpecFrames: Run never returns; the
\* process panics in pushFrame with every frame in use and the stack full
FrameOverflowPanics ==
    /\ pc \in {"prompt", "run", "crashed"}
    /\ vm.framesIndex <= MaxFrames
    /\ pc = "crashed"
       => (runErr = PanicIndex /\ vm.framesIndex = MaxFrames /\ vm.sp = StackSize)
\* the run has ended
FrameOverflowEnd == pc = "crashed" /\ vm.framesIndex = MaxFrames

\* the operands of the binary operation or comparison the next iteration executes
LeftOperand == At(vm.stack, vm.sp - 2)
RightOperand == At(vm.stack, vm.sp - 1)
\* the next iteration executes one of ops on two operands that are objects
AtBinary(ops) ==
    /\ AtOp(ops)
    /\ vm.sp \in 2..StackSize
    /\ ~IsNil(LeftOperand) /\ ~IsNil(RightOperand)

\* C12 (as the spec states it): Add, Sub, Mul and Div on two Strings with Add
\* push the concatenation left + right, and on every pair of operands of
\* different kinds, or of one kind that is neither Integer nor String, end Run
\* with "unsupported types for binary operation: <left kind> <right kind>",
\* without a panic.
C12_BinaryDispatch ==
    [][/\ (AtBinary({OpAdd}) /\ LeftOperand.kind = STRING_OBJ
                             /\ RightOperand.kind = STRING_OBJ)
          => (/\ pc' = "run" /\ runErr' = NoError
              /\ vm'.sp = vm.sp - 1
              /\ At(vm'.stack, vm.sp - 2).kind = STRING_OBJ
              /\ At(vm'.stack, vm.sp - 2).Value = LeftOperand.Value \o RightOperand.Value)
       /\ (AtBinary({OpAdd, OpSub, OpMul, OpDiv})
           /\ (\/ LeftOperand.kind # RightOperand.kind
               \/ LeftOperand.kind \notin {INTEGER_OBJ, STRING_OBJ}))
          => (/\ runErr' = "unsupported types for binary operation: "
                             \o LeftOperand.kind \o " " \o RightOperand.kind
              /\ pc' # "run" /\ pc' # "crashed")]_vars

\* left op right on Go's int64, for values that stay far from its limits
IntegerResult(op, left, right) ==
    CASE op = OpAdd -> left + right
      [] op = OpSub -> left - right
      [] op = OpMul -> left * right
      [] op = OpDiv -> IF right = 0 THEN 0
                       ELSE IF (left < 0) = (right < 0)
                       THEN (IF left < 0 THEN -left ELSE left)
                                \div (IF right < 0 THEN -right ELSE right)
                       ELSE -((IF left < 0 THEN -left ELSE left)
                                \div (IF right < 0 THEN -right ELSE right))

\* C13 (as the spec states it): Add, Sub, Mul and Div on two Integers go on
\* without error with one Integer in the place of the two operands, whose value
\* is left op right; for Div this is claimed of every right operand, 0 included
\* (where any Integer pushed would do).
C13_IntegerArithmetic ==
    [][(AtBinary({OpAdd, OpSub, OpMul, OpDiv})
        /\ LeftOperand.kind = INTEGER_OBJ /\ RightOperand.kind = INTEGER_OBJ)
       => (/\ pc' = "run" /\ runErr' = NoError
           /\ vm'.sp = vm.sp - 1
           /\ At(vm'.stack, vm.sp - 2).kind = INTEGER_OBJ
           /\ (FetchOp(vm) # OpDiv \/ RightOperand.Value # 0)
              => At(vm'.stack, vm.sp - 2).Value
                    = IntegerResult(FetchOp(vm), LeftOperand.Value, RightOperand.Value))]_vars

(***************************************************************************)
(* Claims about comparisons and the prefix operator !, checked under Spec  *)
(* on the test cases left op right, !x and !!x over TestOperands.          *)
(***************************************************************************)
\* the number of the running test case among the comparisons, the prefix
\* expressions and the conditionals
ComparisonNo == inputNo - Len(WrittenInputs)
BangNo == ComparisonNo - Len(ComparisonInputs)
ConditionalNo == BangNo - Len(BangInputs)
InComparison(ops) ==
    /\ driver = "test" /\ pc # "prompt"
    /\ ComparisonNo \in 1..Len(ComparisonInputs)
    /\ ComparisonOperator(ComparisonNo) \in ops

\* the value the Monkey language gives an expression of TestOperands
ValueOf(e) ==
    CASE e.node = "IntegerLiteral" -> [kind |-> INTEGER_OBJ, Value |-> e.Value]
      [] e.node = "InfixExpression" ->
            [kind |-> INTEGER_OBJ, Value |-> e.Left.Value + e.Right.Value]
      [] e.node = "PrefixExpression" -> [kind |-> INTEGER_OBJ, Value |-> 0 - e.Right.Value]
      [] e.node = "Boolean" -> [kind |-> BOOLEAN_OBJ, Value |-> e.Value]
      [] e.node = "StringLiteral" -> [kind |-> STRING_OBJ, Value |-> e.Value]
      [] OTHER -> [kind |-> NULL_OBJ]
\* both values are Integers
BothIntegers(x, y) == x.kind = INTEGER_OBJ /\ y.kind = INTEGER_OBJ
\* the object is the Boolean singleton of b
IsBoolean(obj, b) == obj.kind = BOOLEAN_OBJ /\ obj.addr = 0 /\ obj.Value = b
\* the instructions and the constants of the program being run
MainInstructions == vm.frames[0].fn.Instructions

\* C14: a < b is compiled to the code of b, the code of a, then GreaterThan (for
\* literals: constants <<b, a>>, Constant 0, Constant 1, GreaterThan); when the
\* VM executes that GreaterThan its left operand is the value of b and its right
\* operand the value of a, and for Integers a and b the result of the program
\* is True iff a < b.
C14_LessThan ==
    InComparison({"<"}) =>
        LET a == ComparisonLeft(ComparisonNo)
            b == ComparisonRight(ComparisonNo)
            x == ValueOf(a)
            y == ValueOf(b)
            cb == Compile(NewCompiler, b)
            ca == Compile(cb, a)
        IN  /\ compileErr = NoError
            /\ Len(cb.instructions) > 0 /\ Len(ca.instructions) > Len(cb.instructions)
            /\ MainInstructions = ca.instructions \o <<OpGreaterThan, OpPop>>
            /\ (a.node = "IntegerLiteral" /\ b.node = "IntegerLiteral")
               => /\ MainInstructions = Make(OpConstant, <<0>>) \o Make(OpConstant, <<1>>)
                                         \o Make(OpGreaterThan, <<>>) \o Make(OpPop, <<>>)
                  /\ Len(vm.constants) = 2
                  /\ vm.constants[1].Value = b.Value /\ vm.constants[2].Value = a.Value
            /\ AtOp({OpGreaterThan})
               => /\ vm.sp = 2
                  /\ LeftOperand.kind = y.kind /\ RightOperand.kind = x.kind
                  /\ BothIntegers(x, y)
                     => (LeftOperand.Value = y.Value /\ RightOperand.Value = x.Value)
            /\ (pc = "done" /\ BothIntegers(x, y))
               => (runErr = NoError /\ vm.sp = 0 /\ IsBoolean(result, x.Value < y.Value))

\* a program 1 < 2 has run to its end with the result True, and one of 2 < 1
\* would end with False
C14_Witness ==
    /\ InComparison({"<"}) /\ pc = "done"
    /\ ComparisonLeft(ComparisonNo).node = "IntegerLiteral"
    /\ ComparisonRight(ComparisonNo).node = "IntegerLiteral"
    /\ ComparisonLeft(ComparisonNo).Value = 1
    /\ ComparisonRight(ComparisonNo).Value = 2
    /\ IsBoolean(result, TRUE)

\* right == left on two objects of which one is no Integer
Identical(l, r) ==
    /\ l.kind = r.kind
    /\ l.addr = r.addr
    /\ l.kind = BOOLEAN_OBJ => l.Value = r.Value
\* what a == b is in the Monkey language for expressions of TestOperands, each
\* evaluation of a string or integer expression making an object of its own
EqualValues(a, b) ==
    LET x == ValueOf(a)
        y == ValueOf(b)
    IN  IF BothIntegers(x, y) THEN x.Value = y.Value
        ELSE /\ x.kind = y.kind
             /\ x.kind \in {BOOLEAN_OBJ, NULL_OBJ}
             /\ x.kind = BOOLEAN_OBJ => x.Value = y.Value

\* C15: Equal and NotEqual on two Integers compare the values, on any other
\* pair the identity of the objects, NotEqual being the negation of Equal; so
\* true, false and null are equal to themselves and to nothing else.
\* GreaterThan on a pair that is not two Integers ends Run with the error
\* "unknown operator: 10 (<left kind> <right kind>)".
C15_Comparison ==
    /\ [][AtBinary({OpEqual, OpNotEqual, OpGreaterThan})
          => LET l == LeftOperand
                 r == RightOperand
                 op == FetchOp(vm)
                 pushed == At(vm'.stack, vm.sp - 2)
             IN  IF BothIntegers(l, r)
                 THEN /\ runErr' = NoError /\ pc' = "run" /\ vm'.sp = vm.sp - 1
                      /\ IsBoolean(pushed, CASE op = OpEqual -> l.Value = r.Value
                                             [] op = OpNotEqual -> l.Value # r.Value
                                             [] OTHER -> l.Value > r.Value)
                 ELSE IF op = OpGreaterThan
                 THEN /\ runErr' = "unknown operator: " \o ToString(OpGreaterThan) \o " ("
                                     \o l.kind \o " " \o r.kind \o ")"
                      /\ pc' = "done"
                      /\ vm'.sp = vm.sp - 2
                 ELSE /\ runErr' = NoError /\ pc' = "run" /\ vm'.sp = vm.sp - 1
                      /\ IsBoolean(pushed, Identical(l, r) = (op = OpEqual))]_vars
    /\ [](/\ (InComparison({"==", "!="}) /\ pc = "done")
             => /\ runErr = NoError
                /\ IsBoolean(result,
                             EqualValues(ComparisonLeft(ComparisonNo),
                                         ComparisonRight(ComparisonNo))
                                = (ComparisonOperator(ComparisonNo) = "=="))
          /\ (InComparison({"<", ">"}) /\ pc = "done")
             => (runErr = NoError
                    <=> BothIntegers(ValueOf(ComparisonLeft(ComparisonNo)),
                                     ValueOf(ComparisonRight(ComparisonNo)))))

\* null == null has run to its end with the result True
C15_Witness ==
    /\ InComparison({"=="}) /\ pc = "done"
    /\ ValueOf(ComparisonLeft(ComparisonNo)).kind = NULL_OBJ
    /\ ValueOf(ComparisonRight(ComparisonNo)).kind = NULL_OBJ
    /\ IsBoolean(result, TRUE)

\* the truthiness the Monkey language gives a value
Truthy(x) ==
    CASE x.kind = BOOLEAN_OBJ -> x.Value
      [] x.kind = NULL_OBJ -> FALSE
      [] OTHER -> TRUE
InBang ==
    /\ driver = "test" /\ pc # "prompt"
    /\ BangNo \in 1..Len(BangInputs)
\* the operand x of the running test case !x or !!x
BangOperand == TestOperands[((BangNo - 1) % Len(TestOperands)) + 1]

\* C16: Bang replaces the top of the stack by False for True, by True for False
\* and for Null, and by False for every other object; so !x is the negation of
\* the truthiness of x and !!x is its truthiness.
C16_Bang ==
    /\ [][(AtOp({OpBang}) /\ vm.sp \in 1..StackSize /\ ~IsNil(RightOperand))
          => /\ runErr' = NoError /\ pc' = "run" /\ vm'.sp = vm.sp
             /\ IsBoolean(At(vm'.stack, vm.sp - 1),
                          \/ IsBoolean(RightOperand, FALSE)
                          \/ RightOperand.kind = NULL_OBJ)
             /\ SlotsKept(vm, vm', 0, vm.sp - 2)]_vars
    /\ []((InBang /\ pc = "done")
          => /\ runErr = NoError
             /\ IsBoolean(result, Truthy(ValueOf(BangOperand)) = (BangNo > Len(TestOperands))))

\* !!null has run to its end with the result False
C16_Witness ==
    /\ InBang /\ pc = "done"
    /\ BangNo > Len(TestOperands)
    /\ ValueOf(BangOperand).kind = NULL_OBJ
    /\ IsBoolean(result, FALSE)

(***************************************************************************)
(* Claims about conditionals, checked under Spec on the test cases         *)
(* if (x) { 10 } and if (x) { 10 } else { 20 } over TestOperands.          *)
(***************************************************************************)
InConditional ==
    /\ driver = "test" /\ pc # "prompt"
    /\ ConditionalNo \in 1..Len(ConditionalInputs)
\* the condition x of the running conditional, and whether it has an else
ConditionOperand == TestOperands[((ConditionalNo - 1) % Len(TestOperands)) + 1]
WithElse == ConditionalNo > Len(TestOperands)
\* the instructions of the running conditional, written out: the condition,
\* JumpNotTruthy to the alternative, the consequence, Jump over the
\* alternative, the alternative (Null without an else), Pop
ConditionalLayout ==
    LET cond == Compile(NewCompiler, ConditionOperand)
        consequence == Make(OpConstant, <<Len(cond.constants)>>)
        alternative == IF WithElse THEN Make(OpConstant, <<Len(cond.constants) + 1>>)
                       ELSE Make(OpNull, <<>>)
        alternativeAt == Len(cond.instructions) + Len(Make(OpJumpNotTruthy, <<0>>))
                            + Len(consequence) + Len(Make(OpJump, <<0>>))
        after == alternativeAt + Len(alternative)
    IN  [instructions |-> cond.instructions \o Make(OpJumpNotTruthy, <<alternativeAt>>)
                            \o consequence \o Make(OpJump, <<after>>)
                            \o alternative \o Make(OpPop, <<>>),
         alternativeAt |-> alternativeAt,
         after |-> after]
\* the next iteration executes the last instruction of the main program
AtLastInstruction ==
    /\ pc = "run" /\ vm.framesIndex = 1
    /\ vm.frames[0].ip + 2 = Len(MainInstructions)

LocalSlot(v, k, i) == v.frames[k].basePointer + i
\* the index the SetLocal or GetLocal about to execute is given
LocalIndex == Operand(AddIp(vm, 1), 1).value

\* C18: GetLocal(i) pushes the object in stack[basePointer + i] of the current
\* frame and SetLocal(i) pops one value into that slot, every other slot kept;
\* and the slot of every local of every frame in use holds the same object
\* after any iteration of Run that keeps the frame (a push, a pop, a call, a
\* return of a callee) other than a SetLocal of that local in that frame.
C18_LocalSlots ==
    [][/\ (AtOp({OpGetLocal}) /\ vm.sp < StackSize)
          => /\ runErr' = NoError /\ pc' = "run"
             /\ vm'.sp = vm.sp + 1
             /\ SameObject(At(vm'.stack, vm.sp),
                           At(vm.stack, LocalSlot(vm, vm.framesIndex - 1, LocalIndex)))
             /\ SlotsKept(vm, vm', 0, vm.sp - 1)
       /\ (AtOp({OpSetLocal}) /\ vm.sp \in 1..StackSize)
          => /\ runErr' = NoError /\ pc' = "run"
             /\ vm'.sp = vm.sp - 1
             /\ SameObject(At(vm'.stack, LocalSlot(vm, vm.framesIndex - 1, LocalIndex)),
                           At(vm.stack, vm.sp - 1))
             /\ \A i \in 0..(vm.sp - 1) :
                    i # LocalSlot(vm, vm.framesIndex - 1, LocalIndex)
                    => SameObject(At(vm'.stack, i), At(vm.stack, i))
       /\ (pc = "run" /\ pc' = "run")
          => \A k \in 0..(vm.framesIndex - 1) :
                (k < vm'.framesIndex /\ k < MaxFrames)
                => /\ vm'.frames[k].basePointer = vm.frames[k].basePointer
                   /\ \A i \in 0..(vm.frames[k].fn.NumLocals - 1) :
                        \/ SameObject(At(vm'.stack, LocalSlot(vm, k, i)),
                                      At(vm.stack, LocalSlot(vm, k, i)))
                        \/ /\ AtOp({OpSetLocal})
                           /\ k = vm.framesIndex - 1
                           /\ i = LocalIndex]_vars

\* inner runs, called by outer, and is about to set its local y to 12 while the
\* locals a and b of outer hold 1 and 11 below
C18_Witness ==
    /\ pc = "run" /\ vm.framesIndex = 3
    /\ AtOp({OpSetLocal}) /\ LocalIndex = 1
    /\ At(vm.stack, vm.sp - 1).kind = INTEGER_OBJ
    /\ At(vm.stack, vm.sp - 1).Value = 12
    /\ vm.frames[1].fn.NumLocals = 3
    /\ At(vm.stack, LocalSlot(vm, 1, 0)).Value = 1
    /\ At(vm.stack, LocalSlot(vm, 1, 1)).Value = 11

(***************************************************************************)
(* Claims about undefined names, checked under Spec on every test case.    *)
(***************************************************************************)
\* the names every program can use
BuiltinNames == {Builtins[i] : i \in 1..Len(Builtins)}
\* keys and values of a hash literal in the order they are compiled
PairNodes(pairs) ==
    [j \in 1..(2 * Len(pairs)) |->
        IF j % 2 = 1 THEN SortPairs(pairs)[(j + 1) \div 2].Key
        ELSE SortPairs(pairs)[j \div 2].Value]

\* The first identifier of a node, in the order the language evaluates a
\* program text (the right side of < before its left side, the value of a let
\* before its name), that names nothing visible: name is "" when there is none.
\* scope is the set of visible names, which a let extends and a function
\* literal extends by its parameters for its body only.
RECURSIVE UndefinedIn(_, _)
RECURSIVE UndefinedInEach(_, _, _)
UndefinedInEach(nodes, i, scope) ==
    IF i > Len(nodes) THEN [name |-> "", scope |-> scope, at |-> 0]
    ELSE LET u == UndefinedIn(nodes[i], scope)
         IN  IF u.name # "" THEN [name |-> u.name, scope |-> u.scope, at |-> i]
             ELSE UndefinedInEach(nodes, i + 1, u.scope)
UndefinedIn(node, scope) ==
    CASE node.node = "Identifier" ->
            [name |-> IF node.Value \in scope THEN "" ELSE node.Value, scope |-> scope]
      [] node.node = "LetStatement" ->
            LET u == UndefinedIn(node.Value, scope)
            IN  IF u.name # "" THEN u
                ELSE [name |-> "", scope |-> u.scope \cup {node.Name}]
      [] node.node = "ExpressionStatement" -> UndefinedIn(node.Expression, scope)
      [] node.node = "ReturnStatement" -> UndefinedIn(node.ReturnValue, scope)
      [] node.node = "PrefixExpression" -> UndefinedIn(node.Right, scope)
      [] node.node = "InfixExpression" ->
            IF node.Operator = "<"
            THEN UndefinedInEach(<<node.Right, node.Left>>, 1, scope)
            ELSE UndefinedInEach(<<node.Left, node.Right>>, 1, scope)
      [] node.node = "IfExpression" ->
            UndefinedInEach(<<node.Condition>> \o Statements(node.Consequence)
                                \o (IF HasAlternative(node)
                                    THEN Statements(node.Alternative) ELSE <<>>),
                            1, scope)
      [] node.node = "FunctionLiteral" ->
            [name |-> UndefinedInEach(Statements(node.Body), 1,
                                      scope \cup {node.Parameters[i] :
                                                    i \in 1..Len(node.Parameters)}).name,
             scope |-> scope]
      [] node.node = "CallExpression" ->
            UndefinedInEach(<<node.Function>> \o node.Arguments, 1, scope)
      [] node.node = "ArrayLiteral" -> UndefinedInEach(node.Elements, 1, scope)
      [] node.node = "HashLiteral" -> UndefinedInEach(PairNodes(node.Pairs), 1, scope)
      [] node.node = "IndexExpression" ->
            UndefinedInEach(<<node.Left, node.Index>>, 1, scope)
      [] OTHER -> [name |-> "", scope |-> scope]

\* the names the first n statements of a program define with let
LetNames(program, n) ==
    {program[j].Name : j \in {k \in 1..n : program[k].node = "LetStatement"}}

\* C20: Compile returns "undefined variable: <name>" exactly for a program
\* that uses a name neither built in nor defined where it is used, <name> being
\* the first such use; the compiler stops there: the statements after the
\* failing one define nothing and Run is not entered.  A program without such
\* a use compiles without error.
C20_UndefinedVariable ==
    (driver = "test" /\ pc # "prompt" /\ inputNo \in 1..Len(TestInputs))
    => LET program == TestInputs[inputNo]
           u == UndefinedInEach(program, 1, BuiltinNames)
       IN  IF u.name = ""
           THEN /\ compileErr = NoError
                /\ DOMAIN tables[1].store = BuiltinNames \cup LetNames(program, Len(program))
           ELSE /\ compileErr = "undefined variable: " \o u.name
                /\ pc = "done"
                /\ runErr = NoError
                /\ vm = New(EmptyBytecode)
                /\ DOMAIN tables[1].store = BuiltinNames \cup LetNames(program, u.at - 1)

\* let a = 1; c < b; let b = a has failed on b, the first of two undefined
\* names, with a defined and the let after it not compiled
C20_Witness ==
    /\ driver = "test" /\ pc = "done"
    /\ inputNo \in 1..Len(TestInputs)
    /\ Len(TestInputs[inputNo]) = 3
    /\ TestInputs[inputNo][2].node = "ExpressionStatement"
    /\ TestInputs[inputNo][2].Expression.node = "InfixExpression"
    /\ TestInputs[inputNo][3].node = "LetStatement"
    /\ TestInputs[inputNo][3].Name = "b"
    /\ compileErr = "undefined variable: b"
    /\ DOMAIN tables[1].store = BuiltinNames \cup {"a"}

(***************************************************************************)
(* Redefinition in one table, checked under SpecSym.                       *)
(***************************************************************************)
\* C30: a Define of a name the table already holds replaces the entry of the
\* name by a new symbol whose index is numDefinitions as it was, and adds one
\* to numDefinitions; Resolve of the name on the table then returns the new
\* symbol, the other entries are as they were, and when the earlier entry came
\* from Define no name of the table has its index any more.
C30_Redefine ==
    [][(/\ symRet'.op = "Define"
        /\ symOps' = symOps + 1
        /\ symRet'.name \in DOMAIN tables[symRet'.table].store)
       => LET st == symRet'.table
              name == symRet'.name
              old == tables[st].store[name]
          IN  /\ symRet'.symbol.Index = tables[st].numDefinitions
              /\ tables'[st].numDefinitions = tables[st].numDefinitions + 1
              /\ DOMAIN tables'[st].store = DOMAIN tables[st].store
              /\ tables'[st].store[name] = symRet'.symbol
              /\ Resolve(tables', st, name).ok
              /\ Resolve(tables', st, name).symbol.Index = tables[st].numDefinitions
              /\ \A n \in DOMAIN tables[st].store \ {name} :
                    tables'[st].store[n] = tables[st].store[n]
              /\ old.Scope # BuiltinScope
                 => \A n \in DOMAIN tables'[st].store :
                        (tables'[st].store[n].Scope = BuiltinScope
                         \/ tables'[st].store[n].Index # old.Index)]_vars

\* Define("a"); Define("a") on the fresh global table: the entry of a has
\* index 1 and numDefinitions is 2
C30_Witness ==
    /\ symRet.op = "Define" /\ symRet.table = 1 /\ symRet.name = "a"
    /\ symOps = 2 /\ defineCalls[1] = 2
    /\ DOMAIN tables[1].store = {"a"}
    /\ tables[1].numDefinitions = 2
    /\ Resolve(tables, 1, "a").symbol.Index = 1

(***************************************************************************)
(* Termination of Instructions.String(), checked under SpecCode.           *)
(***************************************************************************)
\* C28 (as the spec states it): every iteration of the loop of String()
\* that goes on to another iteration has moved the read offset i forward, also
\* when the byte at i is no opcode and Lookup returns an error.
C28_StringAdvances ==
    [][(/\ codeRet.call = "StringLoop"
        /\ codeRet'.call = "StringLoop"
        /\ codeRet'.lines = codeRet.lines + 1)
       => codeRet'.i > codeRet.i]_vars

(***************************************************************************)
(* The constant pool, checked under Spec on every test case and REPL line. *)
(***************************************************************************)
\* The literals of a node that become constants, in the order the language
\* compiles a program text: integer and string literals where they stand
\* (the right side of < before its left side, the pairs of a hash literal in
\* key order), a function literal after the literals of its body.
RECURSIVE LiteralsOf(_)
RECURSIVE LiteralsOfEach(_, _)
LiteralsOfEach(nodes, i) ==
    IF i > Len(nodes) THEN <<>>
    ELSE LiteralsOf(nodes[i]) \o LiteralsOfEach(nodes, i + 1)
LiteralsOf(node) ==
    CASE node.node = "IntegerLiteral" -> <<[kind |-> INTEGER_OBJ, Value |-> node.Value]>>
      [] node.node = "StringLiteral" -> <<[kind |-> STRING_OBJ, Value |-> node.Value]>>
      [] node.node = "FunctionLiteral" ->
            LiteralsOfEach(Statements(node.Body), 1)
                \o <<[kind |-> COMPILED_FUNCTION_OBJECT]>>
      [] node.node = "LetStatement" -> LiteralsOf(node.Value)
      [] node.node = "ExpressionStatement" -> LiteralsOf(node.Expression)
      [] node.node = "ReturnStatement" -> LiteralsOf(node.ReturnValue)
      [] node.node = "PrefixExpression" -> LiteralsOf(node.Right)
      [] node.node = "InfixExpression" ->
            IF node.Operator = "<"
            THEN LiteralsOf(node.Right) \o LiteralsOf(node.Left)
            ELSE LiteralsOf(node.Left) \o LiteralsOf(node.Right)
      [] node.node = "IfExpression" ->
            LiteralsOf(node.Condition)
                \o LiteralsOfEach(Statements(node.Consequence), 1)
                \o (IF HasAlternative(node)
                    THEN LiteralsOfEach(Statements(node.Alternative), 1) ELSE <<>>)
      [] node.node = "CallExpression" ->
            LiteralsOf(node.Function) \o LiteralsOfEach(node.Arguments, 1)
      [] node.node = "ArrayLiteral" -> LiteralsOfEach(node.Elements, 1)
      [] node.node = "HashLiteral" -> LiteralsOfEach(PairNodes(node.Pairs), 1)
      [] node.node = "IndexExpression" -> LiteralsOf(node.Left) \o LiteralsOf(node.Index)
      [] OTHER -> <<>>

\* the constant is the one the literal makes
IsLiteral(obj, lit) ==
    /\ obj.kind = lit.kind
    /\ lit.kind # COMPILED_FUNCTION_OBJECT => obj.Value = lit.Value
\* the operands of the Constant instructions of a stream, in order
ConstantOperands(ins) ==
    LET pairs == Decode(ins, 0).pairs
        at == SelectSeq([k \in 1..Len(pairs) |-> k], LAMBDA k : pairs[k].op = OpConstant)
    IN  [j \in 1..Len(at) |-> pairs[at[j]].operands[1]]
\* the operands of the Constant instructions of all streams of a program that
\* are short enough to decode
AllConstantOperands(streams) ==
    UNION {{ConstantOperands(streams[k])[j] : j \in 1..Len(ConstantOperands(streams[k]))} :
             k \in {n \in 1..Len(streams) : Len(streams[n]) <= MaxStreamLen}}
\* the program of the running test case is compiled and all its streams decode
DecodableTestCase ==
    /\ driver = "test" /\ pc # "prompt" /\ inputNo \in 1..Len(TestInputs)
    /\ compileErr = NoError

\* C29: the constants of a compiled program are its literals, one constant for
\* each literal in compile order, equal literals included, each a different
\* object; the pool after the first n statements is the beginning of the pool
\* after n + 1; the Constant instructions name the indices 0 .. len-1; and a
\* line of the REPL leaves the constants of the earlier lines as they are.
C29_ConstantPool ==
    /\ [](DecodableTestCase
          => LET program == TestInputs[inputNo]
                 lits == LiteralsOfEach(program, 1)
                 streams == Streams([Instructions |-> MainInstructions,
                                     Constants |-> vm.constants])
             IN  /\ Len(vm.constants) = Len(lits)
                 /\ \A k \in 1..Len(lits) : IsLiteral(vm.constants[k], lits[k])
                 /\ \A j, k \in 1..Len(lits) :
                        j # k => vm.constants[j].addr # vm.constants[k].addr
                 /\ \A n \in 1..Len(program) :
                        LET part == CompileProgram(NewCompiler, SubSeq(program, 1, n))
                        IN  /\ part.err = NoError
                            /\ Len(part.constants) <= Len(vm.constants)
                            /\ \A k \in 1..Len(part.constants) :
                                  /\ IsLiteral(part.constants[k], lits[k])
                                  /\ part.constants[k].addr = vm.constants[k].addr
                 /\ AllConstantOperands(streams) \subseteq 0..(Len(lits) - 1)
                 /\ (\A k \in 1..Len(streams) : Len(streams[k]) <= MaxStreamLen)
                    => AllConstantOperands(streams) = 0..(Len(lits) - 1))
    /\ [][(driver = "repl" /\ lines' = lines + 1)
          => /\ Len(replConsts') >= Len(replConsts)
             /\ SubSeq(replConsts', 1, Len(replConsts)) = replConsts
             /\ compileErr' = NoError
                => Len(replConsts') = Len(replConsts)
                        + Len(LiteralsOfEach(ReplLines[inputNo'], 1))]_vars

\* [1, 2, 3][1 + 1] has run: its five constants are 1, 2, 3, 1, 1, the first
\* and the fourth being two objects of value 1
C29_Witness ==
    /\ DecodableTestCase /\ pc = "done"
    /\ Len(vm.constants) = 5
    /\ \A k \in {1, 4, 5} : vm.constants[k].kind = INTEGER_OBJ /\ vm.constants[k].Value = 1
    /\ vm.constants[1].addr # vm.constants[4].addr

(***************************************************************************)
(* Renaming of local names, checked under Spec on every test case.         *)
(***************************************************************************)
\* the renamings tried: 1 exchanges a and b; 2 gives every name a new one,
\* a, b, c becoming p, q, r
Renamings == {1, 2}
NewName(k, name) ==
    IF k = 1
    THEN CASE name = "a" -> "b"
           [] name = "b" -> "a"
           [] OTHER -> name
    ELSE CASE name = "a" -> "p"
           [] name = "b" -> "q"
           [] name = "c" -> "r"
           [] OTHER -> name \o "_"

\* the parameters and the names bound by let inside the function literals of
\* a node; inside tells that the node stands in a function body
RECURSIVE LocalNames(_, _)
LocalNamesOfEach(nodes, inside) ==
    UNION {LocalNames(nodes[i], inside) : i \in 1..Len(nodes)}
LocalNames(node, inside) ==
    CASE node.node = "FunctionLiteral" ->
            {node.Parameters[i] : i \in 1..Len(node.Parameters)}
                \cup LocalNamesOfEach(Statements(node.Body), TRUE)
      [] node.node = "LetStatement" ->
            (IF inside THEN {node.Name} ELSE {}) \cup LocalNames(node.Value, inside)
      [] node.node = "ExpressionStatement" -> LocalNames(node.Expression, inside)
      [] node.node = "ReturnStatement" -> LocalNames(node.ReturnValue, inside)
      [] node.node = "PrefixExpression" -> LocalNames(node.Right, inside)
      [] node.node = "InfixExpression" ->
            LocalNames(node.Left, inside) \cup LocalNames(node.Right, inside)
      [] node.node = "IfExpression" ->
            LocalNames(node.Condition, inside)
                \cup LocalNamesOfEach(Statements(node.Consequence), inside)
                \cup (IF HasAlternative(node)
                      THEN LocalNamesOfEach(Statements(node.Alternative), inside) ELSE {})
      [] node.node = "CallExpression" ->
            LocalNames(node.Function, inside) \cup LocalNamesOfEach(node.Arguments, inside)
      [] node.node = "ArrayLiteral" -> LocalNamesOfEach(node.Elements, inside)
      [] node.node = "HashLiteral" ->
            LocalNamesOfEach(PairNodes(node.Pairs), inside)
      [] node.node = "IndexExpression" ->
            LocalNames(node.Left, inside) \cup LocalNames(node.Index, inside)
      [] OTHER -> {}

\* the node with every local name n of the set names replaced by NewName(k, n),
\* where it is bound and where it is used inside a function body
RECURSIVE Rename(_, _, _, _)
RenameEach(nodes, k, names, inside) ==
    [i \in 1..Len(nodes) |-> Rename(nodes[i], k, names, inside)]
RenameBlock(block, k, names, inside) ==
    IF Len(block) = 0 THEN block
    ELSE BlockStatement(RenameEach(Statements(block), k, names, inside))
Rename(node, k, names, inside) ==
    CASE node.node = "Identifier" ->
            IF inside /\ node.Value \in names
            THEN Identifier(NewName(k, node.Value)) ELSE node
      [] node.node = "FunctionLiteral" ->
            FunctionLiteral([i \in 1..Len(node.Parameters) |->
                                NewName(k, node.Parameters[i])],
                            RenameBlock(node.Body, k, names, TRUE))
      [] node.node = "LetStatement" ->
            LetStatement(IF inside THEN NewName(k, node.Name) ELSE node.Name,
                         Rename(node.Value, k, names, inside))
      [] node.node = "ExpressionStatement" ->
            ExpressionStatement(Rename(node.Expression, k, names, inside))
      [] node.node = "ReturnStatement" ->
            ReturnStatement(Rename(node.ReturnValue, k, names, inside))
      [] node.node = "PrefixExpression" ->
            PrefixExpression(node.Operator, Rename(node.Right, k, names, inside))
      [] node.node = "InfixExpression" ->
            InfixExpression(Rename(node.Left, k, names, inside), node.Operator,
                            Rename(node.Right, k, names, inside))
      [] node.node = "IfExpression" ->
            IfExpression(Rename(node.Condition, k, names, inside),
                         RenameBlock(node.Consequence, k, names, inside),
                         RenameBlock(node.Alternative, k, names, inside))
      [] node.node = "CallExpression" ->
            CallExpression(Rename(node.Function, k, names, inside),
                           RenameEach(node.Arguments, k, names, inside))
      [] node.node = "ArrayLiteral" ->
            ArrayLiteral(RenameEach(node.Elements, k, names, inside))
      [] node.node = "HashLiteral" ->
            HashLiteral([i \in 1..Len(node.Pairs) |->
                            Pair(Rename(node.Pairs[i].Key, k, names, inside),
                                 Rename(node.Pairs[i].Value, k, names, inside))])
      [] node.node = "IndexExpression" ->
            IndexExpression(Rename(node.Left, k, names, inside),
                            Rename(node.Index, k, names, inside))
      [] OTHER -> node

\* the renaming k of the program changes local names only and keeps them apart
\* from each other and from the names of globals and builtins
Renamable(program, k) ==
    LET locals == LocalNamesOfEach(program, FALSE)
        globals == BuiltinNames \cup LetNames(program, Len(program))
    IN  /\ locals # {}
        /\ locals \cap globals = {}
        /\ {NewName(k, n) : n \in locals} \cap globals = {}
        /\ \A n1, n2 \in locals : NewName(k, n1) = NewName(k, n2) => n1 = n2

\* the renaming leaves the keys of every hash literal in the order of their
\* string renderings
RECURSIVE KeyOrderKept(_, _, _, _)
KeyOrderKeptInEach(nodes, k, names, inside) ==
    \A i \in 1..Len(nodes) : KeyOrderKept(nodes[i], k, names, inside)
KeyOrderKept(node, k, names, inside) ==
    CASE node.node = "HashLiteral" ->
            /\ [i \in 1..Len(node.Pairs) |->
                    KeyString(SortPairs(Rename(node, k, names, inside).Pairs)[i].Key)]
               = [i \in 1..Len(node.Pairs) |->
                    KeyString(Rename(SortPairs(node.Pairs)[i].Key, k, names, inside))]
            /\ KeyOrderKeptInEach(PairNodes(node.Pairs), k, names, inside)
      [] node.node = "FunctionLiteral" ->
            KeyOrderKeptInEach(Statements(node.Body), k, names, TRUE)
      [] node.node = "LetStatement" -> KeyOrderKept(node.Value, k, names, inside)
      [] node.node = "ExpressionStatement" ->
            KeyOrderKept(node.Expression, k, names, inside)
      [] node.node = "ReturnStatement" -> KeyOrderKept(node.ReturnValue, k, names, inside)
      [] node.node = "PrefixExpression" -> KeyOrderKept(node.Right, k, names, inside)
      [] node.node = "InfixExpression" ->
            KeyOrderKeptInEach(<<node.Left, node.Right>>, k, names, inside)
      [] node.node = "IfExpression" ->
            KeyOrderKeptInEach(<<node.Condition>> \o Statements(node.Consequence)
                                  \o (IF HasAlternative(node)
                                      THEN Statements(node.Alternative) ELSE <<>>),
                               k, names, inside)
      [] node.node = "CallExpression" ->
            KeyOrderKeptInEach(<<node.Function>> \o node.Arguments, k, names, inside)
      [] node.node = "ArrayLiteral" -> KeyOrderKeptInEach(node.Elements, k, names, inside)
      [] node.node = "IndexExpression" ->
            KeyOrderKeptInEach(<<node.Left, node.Index>>, k, names, inside)
      [] OTHER -> TRUE

\* the compiler made of the renamed program what the VM runs: the same main
\* instructions and, constant by constant, the same kind and for a function the
\* same instructions, number of locals and number of parameters
SameCodeRenamed(program, k) ==
    LET renamed == RenameEach(program, k, LocalNamesOfEach(program, FALSE), FALSE)
        comp == CompileProgram(NewCompiler, renamed)
    IN  /\ comp.err = NoError
        /\ comp.instructions = MainInstructions
        /\ Len(comp.constants) = Len(vm.constants)
        /\ \A i \in 1..Len(vm.constants) :
              /\ comp.constants[i].kind = vm.constants[i].kind
              /\ vm.constants[i].kind = COMPILED_FUNCTION_OBJECT
                 => /\ comp.constants[i].Instructions = vm.constants[i].Instructions
                    /\ comp.constants[i].NumLocals = vm.constants[i].NumLocals
                    /\ comp.constants[i].NumParameters = vm.constants[i].NumParameters

LocalOperands(ins) ==
    LET pairs == Decode(ins, 0).pairs
    IN  {pairs[k].operands[1] : k \in {n \in 1..Len(pairs) :
                                         pairs[n].op \in {OpSetLocal, OpGetLocal}}}

\* C22 (as the spec states it): every function constant of a compiled program
\* has NumParameters <= NumLocals, every SetLocal and GetLocal of its
\* instructions has an operand below NumLocals, and so has every SetLocal and
\* GetLocal the VM is about to execute in a frame of a call.
C22_LocalsInRange ==
    DecodableTestCase
    => /\ \A i \in 1..Len(vm.constants) :
             vm.constants[i].kind = COMPILED_FUNCTION_OBJECT
             => /\ vm.constants[i].NumParameters <= vm.constants[i].NumLocals
                /\ Len(vm.constants[i].Instructions) <= MaxStreamLen
                   => \A operand \in LocalOperands(vm.constants[i].Instructions) :
                         operand < vm.constants[i].NumLocals
       /\ (AtOp({OpSetLocal, OpGetLocal}) /\ NextOperand(1).err = NoError)
          => NextOperand(1).value < currentFrame(vm).fn.NumLocals

(***************************************************************************)
(* Hash and Index, checked under Spec.                                     *)
(***************************************************************************)
\* the j-th key and value of the slots the Hash about to execute takes
HashSlots == NextOperand(2).value
KeySlot(j) == At(vm.stack, vm.sp - HashSlots + 2 * (j - 1))
ValueSlot(j) == At(vm.stack, vm.sp - HashSlots + 2 * (j - 1) + 1)
\* the next iteration executes Hash on slots that hold objects
AtHash ==
    /\ AtOp({OpHash}) /\ NextOperand(2).err = NoError
    /\ HashSlots % 2 = 0 /\ HashSlots <= vm.sp /\ vm.sp - HashSlots < StackSize
    /\ \A i \in (vm.sp - HashSlots)..(vm.sp - 1) : ~IsNil(At(vm.stack, i))

\* C23: Hash on 2N slots whose keys are all Integers, Booleans or Strings takes
\* the slots off the stack and pushes one Hash, whose pairs are the (key, value)
\* of each hash key's last slot pair; with a key of another kind Run returns
\* "unusable as hash key: <kind>" and the stack stays as it is.
C23_Hash ==
    [][AtHash
       => LET pairs == 1..(HashSlots \div 2)
              unusable == {j \in pairs : ~Hashable(KeySlot(j))}
              hash == At(vm'.stack, vm'.sp - 1)
          IN  IF unusable = {}
              THEN /\ runErr' = NoError /\ pc' = "run"
                   /\ vm'.sp = vm.sp - HashSlots + 1
                   /\ \A i \in 0..(vm.sp - HashSlots - 1) :
                         At(vm'.stack, i) = At(vm.stack, i)
                   /\ hash.kind = HASH_OBJ
                   /\ DOMAIN hash.Pairs = {HashKey(KeySlot(j)) : j \in pairs}
                   /\ \A j \in pairs :
                         (\A later \in pairs :
                             later > j => HashKey(KeySlot(later)) # HashKey(KeySlot(j)))
                         => /\ hash.Pairs[HashKey(KeySlot(j))].Key = KeySlot(j)
                            /\ hash.Pairs[HashKey(KeySlot(j))].Value = ValueSlot(j)
              ELSE /\ \E j \in unusable :
                         runErr' = "unusable as hash key: " \o KeySlot(j).kind
                   /\ pc' # "run"
                   /\ vm'.sp = vm.sp /\ vm'.stack = vm.stack]_vars

\* {a: 2, b: 3} with a and b both 1 has been built: one pair, the later one
C23_Witness ==
    /\ driver = "test" /\ inputNo = 32 /\ pc = "run" /\ vm.sp = 1
    /\ At(vm.stack, 0).kind = HASH_OBJ
    /\ DOMAIN At(vm.stack, 0).Pairs = {HashKey(Integer(1, 0))}
    /\ At(vm.stack, 0).Pairs[HashKey(Integer(1, 0))].Value.Value = 3

\* the operands of the Index about to execute: the index is the first pop
IndexOperand == At(vm.stack, vm.sp - 1)
CollectionOperand == At(vm.stack, vm.sp - 2)
AtIndex ==
    /\ AtOp({OpIndex}) /\ vm.sp >= 2 /\ vm.sp <= StackSize
    /\ ~IsNil(IndexOperand) /\ ~IsNil(CollectionOperand)
\* the iteration took the two operands and pushed obj
IndexPushed(obj) ==
    /\ runErr' = NoError /\ pc' = "run"
    /\ vm'.sp = vm.sp - 1
    /\ SameObject(At(vm'.stack, vm.sp - 2), obj)
    /\ \A i \in 0..(vm.sp - 3) : At(vm'.stack, i) = At(vm.stack, i)

\* C24: Index takes the index from the top of the stack and the collection from
\* below it.  An Array with an Integer index i gives the element at i, or Null
\* when i is not in 0 .. len-1; a Hash gives the value stored under the index, or
\* Null when there is none, and "unusable as hash key: <kind>" for an index that
\* is not hashable; anything else gives "index operator not supported: <kind>"
\* with the kind of the collection.
C24_Index ==
    [][AtIndex
       => CASE CollectionOperand.kind = ARRAY_OBJ /\ IndexOperand.kind = INTEGER_OBJ ->
                 IF IndexOperand.Value \in 0..(Len(CollectionOperand.Elements) - 1)
                 THEN IndexPushed(CollectionOperand.Elements[IndexOperand.Value + 1])
                 ELSE IndexPushed(Null)
            [] CollectionOperand.kind = HASH_OBJ /\ Hashable(IndexOperand) ->
                 IF HashKey(IndexOperand) \in DOMAIN CollectionOperand.Pairs
                 THEN IndexPushed(CollectionOperand.Pairs[HashKey(IndexOperand)].Value)
                 ELSE IndexPushed(Null)
            [] CollectionOperand.kind = HASH_OBJ /\ ~Hashable(IndexOperand) ->
                 /\ runErr' = "unusable as hash key: " \o IndexOperand.kind
                 /\ pc' # "run"
            [] OTHER ->
                 /\ runErr' = "index operator not supported: " \o CollectionOperand.kind
                 /\ pc' # "run"]_vars

\* [1, 2, 3][3]; [1][-1]; [][0]; {1: 2}[2]; {}[true] has run: the last of the
\* five Nulls is the result
C24_Witness ==
    /\ driver = "test" /\ inputNo = 34 /\ pc = "done" /\ runErr = NoError
    /\ vm.sp = 0 /\ SameObject(result, Null)
    /\ At(vm.stack, 1).kind = BOOLEAN_OBJ

(***************************************************************************)
(* The frames and the stack pointer over a whole run, checked under Spec.  *)
(***************************************************************************)
\* the opcode of the last instruction of a stream, 255 for an empty stream
LastOp(ins) ==
    LET pairs == Decode(ins, 0).pairs
    IN  IF Len(pairs) = 0 THEN 255 ELSE pairs[Len(pairs)].op

\* C25 (as the spec states it): every function constant ends in ReturnValue or
\* Return, and when Run has returned without an error only the main frame is
\* left and its ip stands on the last byte of the main instructions.
C25_FramesReturn ==
    DecodableTestCase
    => /\ \A i \in 1..Len(vm.constants) :
             (/\ vm.constants[i].kind = COMPILED_FUNCTION_OBJECT
              /\ Len(vm.constants[i].Instructions) <= MaxStreamLen)
             => LastOp(vm.constants[i].Instructions) \in {OpReturnValue, OpReturn}
       /\ (pc = "done" /\ runErr = NoError)
          => /\ vm.framesIndex = 1
             /\ vm.frames[0].ip = Len(MainInstructions) - 1

\* C26 (as the spec states it): the stack pointer is never below 0 or above
\* StackSize, a SetLocal or GetLocal about to execute names a slot of the stack,
\* and so does LastPoppedStackElement when Run has left its loop.  Stated of the
\* states that have a current frame, which is what C27 is about.
C26_StackPointerInRange ==
    (driver = "test" /\ pc \in {"run", "done", "crashed"} /\ vm.framesIndex >= 1)
    => /\ vm.sp \in 0..StackSize
       /\ (AtOp({OpSetLocal, OpGetLocal}) /\ NextOperand(1).err = NoError)
          => currentFrame(vm).basePointer + NextOperand(1).value \in 0..(StackSize - 1)
       /\ (pc = "run" /\ LoopCondition(vm) = "exit") => vm.sp \in 0..(StackSize - 1)

\* C27 (as the spec states it): there is always a current frame, and a
\* ReturnValue or Return about to execute is in a frame pushed by Call, whose
\* base pointer is at least 1.
C27_MainFrameStays ==
    (driver = "test" /\ pc \in {"run", "done", "crashed"})
    => /\ vm.framesIndex >= 1
       /\ AtOp({OpReturnValue, OpReturn})
          => (vm.framesIndex >= 2 /\ currentFrame(vm).basePointer - 1 >= 0)

====
